---- MODULE Spec2Model ----
(***************************************************************************)
(* Decision engine (alu_decision.py), driving profiles (config/config.py)  *)
(* and vehicle integrators (physics.py: Vehicle, src/physics.py: Car) of   *)
(* the autonomous car simulator.                                           *)
(*                                                                         *)
(* Fixed-point units, chosen so that every threshold of the source is an   *)
(* integer and every quotient the source forms is exact:                   *)
(*   sensor distance   half metres        (danger 3.0 m  -> 6)             *)
(*   speed             centimetres/second (0.01 m/s -> 1)                  *)
(*   ttc               a fraction num/den of seconds, or TTC_INF           *)
(*   hazard score      twelfths           (1.0 -> 12)                      *)
(*   throttle/steering/brake  tenths      (0.8 -> 8)                       *)
(*   heading           centiradians       (2*pi -> 628)                    *)
(*   position          millimetres                                         *)
(*   dt                deciseconds        (0.1 s -> 1)                     *)
(***************************************************************************)
EXTENDS Integers, Sequences, FiniteSets, TLC

VARIABLES
    op,                   \* the operation that produced the current state
    mode,                 \* ALUDecisionEngine.mode
    config,               \* ALUDecisionEngine.config
    current_state,        \* ALUDecisionEngine.current_state
    state_candidate,      \* ALUDecisionEngine.state_candidate
    state_hold_count,     \* ALUDecisionEngine.state_hold_count
    hysteresis_threshold, \* ALUDecisionEngine.hysteresis_threshold
    hazard_score,         \* ALUDecisionEngine.hazard_score
    ttc,                  \* ALUDecisionEngine.ttc
    state_history,        \* ALUDecisionEngine.state_history
    sensor_readings,      \* argument of the last determine_next_state/update_state
    current_speed,        \* argument of the last determine_next_state/update_state
    desired_state,        \* value returned by the last determine_next_state
    call_log,             \* one record per update_state call so far
    control_output,       \* value returned by the last get_control_output
    cmd_state,            \* argument of the last get_control_output
    dt_arg,               \* dt argument of the last apply_control
    position,             \* Vehicle.position
    velocity,             \* Vehicle.velocity
    heading,              \* Vehicle.heading
    speed,                \* Vehicle.speed
    heading_before,       \* Vehicle.heading at entry of the last apply_control
    speed_before,         \* Vehicle.speed at entry of the last apply_control
    ticks,                \* number of integration ticks so far
    error,                \* exception raised to the caller by the last operation
    mode_arg,             \* argument of the constructor or of the last set_mode
    car,                  \* Car: x, y, theta, v
    car_pre,              \* Car at entry of _handle_boundaries in the last update
    position_before,      \* Vehicle.position at entry of the last apply_control
    collision,            \* Vehicle.in_collision and Vehicle.collision_count
    overlap_log,          \* one entry per check_collision call: did it find an overlap
    obstacles,            \* Environment.obstacles
    returned,             \* the list the last get_obstacles call returned
    sensors,              \* SensorArray: the switches and the filter history
    scan,                 \* arguments and result of the last raycast or update
    server                \* backend_server: is_running, controller, loop threads

alu_vars == <<mode, config, current_state, state_candidate, state_hold_count,
              hysteresis_threshold, hazard_score, ttc, state_history>>
call_vars == <<sensor_readings, current_speed, desired_state, call_log>>
cmd_vars == <<control_output, cmd_state, dt_arg>>
vehicle_vars == <<position, velocity, heading, speed, heading_before, speed_before,
                  ticks>>
mode_vars == <<error, mode_arg>>
car_vars == <<car, car_pre>>
world_vars == <<collision, overlap_log, obstacles, returned, sensors, scan, server>>
vars == <<op, alu_vars, call_vars, cmd_vars, vehicle_vars, mode_vars, car_vars,
          position_before, world_vars>>

----------------------------------------------------------------------------
(* config/config.py *)

CRUISE == "CRUISE"
AVOID_LEFT == "AVOID_LEFT"
AVOID_RIGHT == "AVOID_RIGHT"
EMERGENCY_BRAKE == "EMERGENCY_BRAKE"
REVERSING == "REVERSING"

VehicleState == {CRUISE, AVOID_LEFT, AVOID_RIGHT, EMERGENCY_BRAKE, REVERSING}

\* the cautious and the aggressive profile registered under each other's name
DRIVING_MODES_profiles_swapped ==
    [m \in {"cautious", "normal", "aggressive"} |->
        CASE m = "aggressive" ->
                [danger_threshold |-> 6, warning_threshold |-> 10,
                 max_speed |-> 200, ttc_threshold |-> 3, hysteresis_cycles |-> 5]
          [] m = "normal" ->
                [danger_threshold |-> 4, warning_threshold |-> 7,
                 max_speed |-> 350, ttc_threshold |-> 2, hysteresis_cycles |-> 3]
          [] m = "cautious" ->
                [danger_threshold |-> 2, warning_threshold |-> 4,
                 max_speed |-> 500, ttc_threshold |-> 1, hysteresis_cycles |-> 2]]

DRIVING_MODES ==
    [m \in {"cautious", "normal", "aggressive"} |->
        CASE m = "cautious" ->
                [danger_threshold |-> 6, warning_threshold |-> 10,
                 max_speed |-> 200, ttc_threshold |-> 3, hysteresis_cycles |-> 5]
          [] m = "normal" ->
                [danger_threshold |-> 4, warning_threshold |-> 7,
                 max_speed |-> 350, ttc_threshold |-> 2, hysteresis_cycles |-> 3]
          [] m = "aggressive" ->
                [danger_threshold |-> 2, warning_threshold |-> 4,
                 max_speed |-> 500, ttc_threshold |-> 1, hysteresis_cycles |-> 2]]

ModeNames == DOMAIN DRIVING_MODES

SensorNames == {"FL", "FR", "BL", "BR"}

\* SENSOR_CONFIG['max_range'] = 10.0 m
SensorMaxRange == 20

----------------------------------------------------------------------------
(* Numeric representation *)

\* float('inf') as a distance: larger than every finite distance and threshold
INF == 1000000

\* float('inf') as a time to collision
TTC_INF == [num |-> 1, den |-> 0]

\* hazard score 1.0
HazardOne == 12

\* half metres over centimetres/second, in seconds: (d * 0.5) / (v * 0.01)
SecondsScale == 50

Min(a, b) == IF a < b THEN a ELSE b
Max(a, b) == IF a > b THEN a ELSE b
Abs(a) == IF a < 0 THEN -a ELSE a

\* t < thr for a stored ttc t and a threshold thr in seconds
TtcLess(t, thr) == t # TTC_INF /\ t.num < thr * t.den

\* dict.get(key, float('inf'))
\* a missing key read as an obstacle touching the sensor
Get_missing_is_touching(readings, key) ==
    IF key \in DOMAIN readings THEN readings[key] ELSE 0

Get(readings, key) == IF key \in DOMAIN readings THEN readings[key] ELSE INF

----------------------------------------------------------------------------
(* alu_decision.py: pure parts *)

\* the warning-zone ramp written from the danger end
danger_value_rising_ramp(distance, cfg) ==
    IF distance <= cfg.danger_threshold
    THEN HazardOne
    ELSE IF distance <= cfg.warning_threshold
         THEN ((distance - cfg.danger_threshold) * HazardOne)
                  \div (cfg.warning_threshold - cfg.danger_threshold)
         ELSE 0

\* one pass of the loop body of calculate_hazard_score
danger_value(distance, cfg) ==
    IF distance <= cfg.danger_threshold
    THEN HazardOne
    ELSE IF distance <= cfg.warning_threshold
         THEN ((cfg.warning_threshold - distance) * HazardOne)
                  \div (cfg.warning_threshold - cfg.danger_threshold)
         ELSE 0

\* the loop keeping the last danger value instead of the largest
RECURSIVE hazard_loop_keeps_last(_, _, _, _)
hazard_loop_keeps_last(readings, names, cfg, max_danger) ==
    IF names = {}
    THEN max_danger
    ELSE LET sensor_name == CHOOSE n \in names : TRUE
         IN  hazard_loop_keeps_last(readings, names \ {sensor_name}, cfg,
                                    danger_value(readings[sensor_name], cfg))

\* the for loop of calculate_hazard_score, max_danger being the accumulator
RECURSIVE hazard_loop(_, _, _, _)
hazard_loop(readings, names, cfg, max_danger) ==
    IF names = {}
    THEN max_danger
    ELSE LET sensor_name == CHOOSE n \in names : TRUE
         IN  hazard_loop(readings, names \ {sensor_name}, cfg,
                         Max(max_danger, danger_value(readings[sensor_name], cfg)))

calculate_hazard_score(readings, cfg) ==
    hazard_loop(readings, DOMAIN readings, cfg, 0)

\* only a speed of exactly zero is treated as stopped
calculate_ttc_zero_only(front_distance, spd) ==
    IF spd = 0
    THEN TTC_INF
    ELSE IF front_distance >= INF
         THEN TTC_INF
         ELSE [num |-> SecondsScale * front_distance, den |-> spd]

calculate_ttc(front_distance, spd) ==
    IF spd < 1
    THEN TTC_INF
    ELSE IF front_distance >= INF
         THEN TTC_INF
         ELSE [num |-> SecondsScale * front_distance, den |-> spd]

\* the vehicle counts as stopped only while it is not moving backward
from_emergency_brake_stopped_forward(cfg, readings, spd) ==
    LET front_distance == Min(Get(readings, "FL"), Get(readings, "FR"))
    IN  IF 2 * front_distance > 3 * cfg.danger_threshold THEN CRUISE
        ELSE IF spd >= 0 /\ spd < 10 THEN REVERSING
        ELSE EMERGENCY_BRAKE

\* determine_next_state, branch "EMERGENCY_BRAKE State"
\* (x > danger_threshold * 1.5 is written 2 * x > 3 * danger_threshold)
from_emergency_brake(cfg, readings, spd) ==
    LET front_distance == Min(Get(readings, "FL"), Get(readings, "FR"))
    IN  IF 2 * front_distance > 3 * cfg.danger_threshold THEN CRUISE
        ELSE IF spd < 10 THEN REVERSING
        ELSE EMERGENCY_BRAKE

\* determine_next_state, branch "REVERSING State"
from_reversing_clears_at_one_and_a_half(cfg, readings) ==
    LET front_distance == Min(Get(readings, "FL"), Get(readings, "FR"))
        back_distance == Min(Get(readings, "BL"), Get(readings, "BR"))
    IN  IF back_distance < cfg.danger_threshold THEN EMERGENCY_BRAKE
        ELSE IF 2 * front_distance > 3 * cfg.danger_threshold THEN CRUISE
        ELSE REVERSING

from_reversing(cfg, readings) ==
    LET front_distance == Min(Get(readings, "FL"), Get(readings, "FR"))
        back_distance == Min(Get(readings, "BL"), Get(readings, "BR"))
    IN  IF back_distance < cfg.danger_threshold THEN EMERGENCY_BRAKE
        ELSE IF front_distance > cfg.danger_threshold * 2 THEN CRUISE
        ELSE REVERSING

\* determine_next_state, branch "AVOID_LEFT State"
from_avoid_left(cfg, readings) ==
    LET FL == Get(readings, "FL")
        FR == Get(readings, "FR")
    IN  IF 2 * FL > 3 * cfg.danger_threshold /\ 2 * FR > 3 * cfg.danger_threshold
        THEN CRUISE
        ELSE IF FR < cfg.danger_threshold THEN AVOID_RIGHT
        ELSE AVOID_LEFT

\* determine_next_state, branch "AVOID_RIGHT State"
from_avoid_right(cfg, readings) ==
    LET FL == Get(readings, "FL")
        FR == Get(readings, "FR")
    IN  IF 2 * FL > 3 * cfg.danger_threshold /\ 2 * FR > 3 * cfg.danger_threshold
        THEN CRUISE
        ELSE IF FL < cfg.danger_threshold THEN AVOID_LEFT
        ELSE AVOID_RIGHT

\* the Cruise branch backing off from a blocked front
from_cruise_backs_off(cfg, readings) ==
    LET FL == Get(readings, "FL")
        FR == Get(readings, "FR")
        front_distance == Min(FL, FR)
    IN  IF front_distance < cfg.danger_threshold
        THEN IF FL < cfg.danger_threshold /\ FR < cfg.danger_threshold
             THEN REVERSING
             ELSE IF FL < FR THEN AVOID_RIGHT
             ELSE AVOID_LEFT
        ELSE CRUISE

\* determine_next_state, branch "CRUISE State (Default)"
from_cruise(cfg, readings) ==
    LET FL == Get(readings, "FL")
        FR == Get(readings, "FR")
        front_distance == Min(FL, FR)
    IN  IF front_distance < cfg.danger_threshold
        THEN IF FL < cfg.danger_threshold /\ FR < cfg.danger_threshold
             THEN EMERGENCY_BRAKE
             ELSE IF FL < FR THEN AVOID_RIGHT
             ELSE AVOID_LEFT
        ELSE CRUISE

\* the if/elif chain on self.current_state of determine_next_state
fsm_transition(cur, cfg, readings, spd) ==
    IF cur = EMERGENCY_BRAKE THEN from_emergency_brake(cfg, readings, spd)
    ELSE IF cur = REVERSING THEN from_reversing(cfg, readings)
    ELSE IF cur = AVOID_LEFT THEN from_avoid_left(cfg, readings)
    ELSE IF cur = AVOID_RIGHT THEN from_avoid_right(cfg, readings)
    ELSE from_cruise(cfg, readings)

\* the TTC check placed in the Cruise branch only
determine_next_state_ttc_in_cruise_only(cur, cfg, readings, spd) ==
    LET front_distance == Min(Get(readings, "FL"), Get(readings, "FR"))
        t == calculate_ttc(front_distance, spd)
    IN  IF cur \notin {EMERGENCY_BRAKE, REVERSING, AVOID_LEFT, AVOID_RIGHT}
           /\ TtcLess(t, cfg.ttc_threshold) /\ spd > 50
        THEN EMERGENCY_BRAKE
        ELSE fsm_transition(cur, cfg, readings, spd)

determine_next_state(cur, cfg, readings, spd) ==
    LET front_distance == Min(Get(readings, "FL"), Get(readings, "FR"))
        t == calculate_ttc(front_distance, spd)
    IN  IF TtcLess(t, cfg.ttc_threshold) /\ spd > 50
        THEN EMERGENCY_BRAKE
        ELSE fsm_transition(cur, cfg, readings, spd)

\* a value that is none of the five states
UnknownStates == {"PARKED"}

\* the mapping whose fallback releases the brake
get_control_output_fallback_coasts(state) ==
    IF state = CRUISE THEN [throttle |-> 10, steering |-> 0, brake |-> 0]
    ELSE IF state = AVOID_LEFT THEN [throttle |-> 6, steering |-> -8, brake |-> 0]
    ELSE IF state = AVOID_RIGHT THEN [throttle |-> 6, steering |-> 8, brake |-> 0]
    ELSE IF state = EMERGENCY_BRAKE THEN [throttle |-> 0, steering |-> 0, brake |-> 10]
    ELSE IF state = REVERSING THEN [throttle |-> -5, steering |-> 0, brake |-> 0]
    ELSE [throttle |-> 0, steering |-> 0, brake |-> 0]

get_control_output(state) ==
    IF state = CRUISE THEN [throttle |-> 10, steering |-> 0, brake |-> 0]
    ELSE IF state = AVOID_LEFT THEN [throttle |-> 6, steering |-> -8, brake |-> 0]
    ELSE IF state = AVOID_RIGHT THEN [throttle |-> 6, steering |-> 8, brake |-> 0]
    ELSE IF state = EMERGENCY_BRAKE THEN [throttle |-> 0, steering |-> 0, brake |-> 10]
    ELSE IF state = REVERSING THEN [throttle |-> -5, steering |-> 0, brake |-> 0]
    ELSE [throttle |-> 0, steering |-> 0, brake |-> 10]

----------------------------------------------------------------------------
(* physics.py: Vehicle *)

\* PHYSICS_CONFIG, in cm/s^2 and mm
max_acceleration == 100
max_brake == 200
friction == 10
vehicle_radius == 500
world_width == 20000
world_height == 20000

\* math.pi and 2 * math.pi in centiradians
Pi == 314
TwoPi == 628

\* Vehicle._normalize_angle
RECURSIVE normalize_angle(_)
normalize_angle(angle) ==
    IF angle < 0 THEN normalize_angle(angle + TwoPi)
    ELSE IF angle >= TwoPi THEN normalize_angle(angle - TwoPi)
    ELSE angle

\* 1000 * math.sin(a) for a in [0, 2*pi), by Bhaskara's rational approximation
sin1000(a) ==
    LET half(x) == (16000 * x * (Pi - x)) \div (5 * Pi * Pi - 4 * x * (Pi - x))
    IN  IF a <= Pi THEN half(a) ELSE -half(a - Pi)

\* 1000 * math.cos(a)
cos1000(a) == sin1000(normalize_angle(a + Pi \div 2))

\* integer quotient rounded toward zero
Quot(a, b) == IF a >= 0 THEN a \div b ELSE -((-a) \div b)

\* Vehicle._enforce_boundaries
enforce_boundaries(pos) ==
    <<Max(vehicle_radius, Min(pos[1], world_width - vehicle_radius)),
      Max(vehicle_radius, Min(pos[2], world_height - vehicle_radius))>>

\* the speed is clamped from below only
new_speed_no_upper_clamp(ctl, spd, dt, max_spd) ==
    LET accel0 == IF ctl.brake > 0
                  THEN -((max_brake * ctl.brake) \div 10)
                  ELSE Quot(max_acceleration * ctl.throttle, 10)
        moving == Abs(spd) > 1
        friction_force == IF moving THEN -friction * (IF spd > 0 THEN 1 ELSE -1) ELSE 0
        accel == IF ~moving /\ Abs(accel0) < friction THEN 0 ELSE accel0
        raw == spd + Quot((accel + friction_force) * dt, 10)
    IN  Max(-(max_spd \div 2), raw)

\* the friction force has the sign of the speed
new_speed_friction_pushes(ctl, spd, dt, max_spd) ==
    LET accel0 == IF ctl.brake > 0
                  THEN -((max_brake * ctl.brake) \div 10)
                  ELSE Quot(max_acceleration * ctl.throttle, 10)
        moving == Abs(spd) > 1
        friction_force == IF moving THEN friction * (IF spd > 0 THEN 1 ELSE -1) ELSE 0
        accel == IF ~moving /\ Abs(accel0) < friction THEN 0 ELSE accel0
        raw == spd + Quot((accel + friction_force) * dt, 10)
    IN  Max(-(max_spd \div 2), Min(raw, max_spd))

\* the reverse limit is the forward limit
new_speed_symmetric_clamp(ctl, spd, dt, max_spd) ==
    LET accel0 == IF ctl.brake > 0
                  THEN -((max_brake * ctl.brake) \div 10)
                  ELSE Quot(max_acceleration * ctl.throttle, 10)
        moving == Abs(spd) > 1
        friction_force == IF moving THEN -friction * (IF spd > 0 THEN 1 ELSE -1) ELSE 0
        accel == IF ~moving /\ Abs(accel0) < friction THEN 0 ELSE accel0
        raw == spd + Quot((accel + friction_force) * dt, 10)
    IN  Max(-max_spd, Min(raw, max_spd))

\* apply_control, "Calculate acceleration" .. "Update speed": the new speed
new_speed(ctl, spd, dt, max_spd) ==
    LET accel0 == IF ctl.brake > 0
                  THEN -((max_brake * ctl.brake) \div 10)
                  ELSE Quot(max_acceleration * ctl.throttle, 10)
        moving == Abs(spd) > 1
        friction_force == IF moving THEN -friction * (IF spd > 0 THEN 1 ELSE -1) ELSE 0
        accel == IF ~moving /\ Abs(accel0) < friction THEN 0 ELSE accel0
        raw == spd + Quot((accel + friction_force) * dt, 10)
    IN  Max(-(max_spd \div 2), Min(raw, max_spd))

\* apply_control, "Update heading based on steering (only when moving)"
new_heading(ctl, hdg, spd_after, dt) ==
    IF Abs(spd_after) > 10
    THEN normalize_angle(hdg + (ctl.steering * 2 * dt))
    ELSE hdg

\* Vehicle.apply_control(ctl, dt, max_spd)
apply_control(ctl, dt, max_spd) ==
    LET spd == new_speed(ctl, speed, dt, max_spd)
        hdg == new_heading(ctl, heading, spd, dt)
        vel == <<Quot(spd * cos1000(hdg), 100), Quot(spd * sin1000(hdg), 100)>>
        pos == <<position[1] + Quot(vel[1] * dt, 10), position[2] + Quot(vel[2] * dt, 10)>>
    IN  /\ speed' = spd
        /\ heading' = hdg
        /\ velocity' = vel
        /\ position' = enforce_boundaries(pos)
        /\ heading_before' = heading
        /\ position_before' = position
        /\ speed_before' = speed
        /\ ticks' = ticks + 1

----------------------------------------------------------------------------
(* src/physics.py: Car.  Positions are in hundredths of a world unit,       *)
(* headings in centiradians, dt in deciseconds.  Speeds are in 1/400 unit/s *)
(* and the friction product is rounded to 1/100 unit/s, so that the halving *)
(* of a bounce, and the two halvings of a corner bounce, are exact as they  *)
(* are in binary floating point.                                            *)

\* the config dict given to Car(x, y, theta, config): radius 10 as in
\* tests/test_physics.py, the default 500 x 500 world, friction 0.5 per second
CarConfig ==
    [car_radius |-> 1000, world_width |-> 50000, world_height |-> 50000,
     friction |-> 50]

\* the bottom/top test is the elif of the left/right test
handle_boundaries_one_edge_per_tick(c) ==
    LET r == CarConfig.car_radius
    IN  IF c.x - r < 0
        THEN [c EXCEPT !.x = r, !.v = Quot(-c.v, 2),
                       !.theta = (Pi - c.theta) % TwoPi]
        ELSE IF c.x + r > CarConfig.world_width
        THEN [c EXCEPT !.x = CarConfig.world_width - r, !.v = Quot(-c.v, 2),
                       !.theta = (Pi - c.theta) % TwoPi]
        ELSE IF c.y - r < 0
        THEN [c EXCEPT !.y = r, !.v = Quot(-c.v, 2),
                       !.theta = (TwoPi - c.theta) % TwoPi]
        ELSE IF c.y + r > CarConfig.world_height
        THEN [c EXCEPT !.y = CarConfig.world_height - r, !.v = Quot(-c.v, 2),
                       !.theta = (TwoPi - c.theta) % TwoPi]
        ELSE c

\* the two reflections exchanged
handle_boundaries_reflections_swapped(c) ==
    LET r == CarConfig.car_radius
        c1 == IF c.x - r < 0
              THEN [c EXCEPT !.x = r, !.v = Quot(-c.v, 2),
                             !.theta = (TwoPi - c.theta) % TwoPi]
              ELSE IF c.x + r > CarConfig.world_width
              THEN [c EXCEPT !.x = CarConfig.world_width - r, !.v = Quot(-c.v, 2),
                             !.theta = (TwoPi - c.theta) % TwoPi]
              ELSE c
    IN  IF c1.y - r < 0
        THEN [c1 EXCEPT !.y = r, !.v = Quot(-c1.v, 2),
                        !.theta = (Pi - c1.theta) % TwoPi]
        ELSE IF c1.y + r > CarConfig.world_height
        THEN [c1 EXCEPT !.y = CarConfig.world_height - r, !.v = Quot(-c1.v, 2),
                        !.theta = (Pi - c1.theta) % TwoPi]
        ELSE c1

\* Car._handle_boundaries: left/right walls, then bottom/top walls
handle_boundaries(c) ==
    LET r == CarConfig.car_radius
        c1 == IF c.x - r < 0
              THEN [c EXCEPT !.x = r, !.v = Quot(-c.v, 2),
                             !.theta = (Pi - c.theta) % TwoPi]
              ELSE IF c.x + r > CarConfig.world_width
              THEN [c EXCEPT !.x = CarConfig.world_width - r, !.v = Quot(-c.v, 2),
                             !.theta = (Pi - c.theta) % TwoPi]
              ELSE c
    IN  IF c1.y - r < 0
        THEN [c1 EXCEPT !.y = r, !.v = Quot(-c1.v, 2),
                        !.theta = (TwoPi - c1.theta) % TwoPi]
        ELSE IF c1.y + r > CarConfig.world_height
        THEN [c1 EXCEPT !.y = CarConfig.world_height - r, !.v = Quot(-c1.v, 2),
                        !.theta = (TwoPi - c1.theta) % TwoPi]
        ELSE c1

\* Car.update, "Kinematics" and "Apply friction": the car that enters
\* _handle_boundaries
kinematics(c, dt) ==
    [c EXCEPT !.x = c.x + Quot(c.v * cos1000(c.theta) * dt, 40000),
              !.y = c.y + Quot(c.v * sin1000(c.theta) * dt, 40000),
              !.v = 4 * Quot(c.v * (1000 - CarConfig.friction * dt), 4000)]

\* Car.update(dt)
update(dt) ==
    /\ car_pre' = kinematics(car, dt)
    /\ car' = handle_boundaries(kinematics(car, dt))

----------------------------------------------------------------------------
(* State after construction *)

\* ALUDecisionEngine.__init__(mode), all fields but current_state
alu_fields_constructed(m) ==
    /\ mode = m
    /\ config = DRIVING_MODES[m]
    /\ state_candidate = CRUISE
    /\ state_hold_count = 0
    /\ hysteresis_threshold = DRIVING_MODES[m].hysteresis_cycles
    /\ hazard_score = 0
    /\ ttc = TTC_INF
    /\ state_history = <<>>

\* ALUDecisionEngine.__init__(mode)
alu_constructed(m) ==
    /\ alu_fields_constructed(m)
    /\ current_state = CRUISE

\* no determine_next_state, update_state or get_control_output call made yet
no_calls ==
    /\ sensor_readings = <<>>
    /\ current_speed = 0
    /\ desired_state = "none"
    /\ call_log = <<>>
    /\ control_output = [throttle |-> 0, steering |-> 0, brake |-> 0]
    /\ cmd_state = "none"
    /\ dt_arg = 0

\* Vehicle.__init__(x=10.0, y=10.0, heading=0.0)
vehicle_constructed ==
    /\ position = <<10000, 10000>>
    /\ velocity = <<0, 0>>
    /\ heading = 0
    /\ speed = 0
    /\ heading_before = 0
    /\ position_before = position
    /\ speed_before = 0
    /\ ticks = 0

\* Vehicle.__init__: no collision seen, none counted
no_collision == [in_collision |-> FALSE, collision_count |-> 0]

\* the other objects of a controller, as constructed and not yet used
\* SensorArray(config, car_radius). Lengths are in 1/200 of a world unit and
\* angles in degrees. max_range is SENSOR_CONFIG['max_range'] = 10.0, the
\* offsets are the four of the class docstring, noise_std is positive, and
\* the moving-average window holds filter_size readings.
SensorArrayConfig ==
    [max_range |-> 2000, noise_std |-> 40, filter_size |-> 2,
     positions |-> [FL |-> 45, FR |-> -45, BL |-> 135, BR |-> -135]]

max_range == SensorArrayConfig.max_range
sensor_offsets == SensorArrayConfig.positions

\* SensorArray.__init__: empty filter histories, no latest readings,
\* timestamp 0.0 (counted in tenths), noise and filter switched off
SensorArray ==
    [noise_enabled |-> FALSE, filter_enabled |-> FALSE,
     filter_history |-> [n \in SensorNames |-> <<>>],
     latest_readings |-> <<>>, timestamp |-> 0]

\* no raycast or update has been called yet
no_scan == [x |-> 0, y |-> 0, theta |-> 0, obstacles |-> <<>>, readings |-> <<>>]

\* backend_server.py at import: controller = None, is_running = False, and no
\* simulation_loop thread has been started; constructed_count numbers the
\* controllers built so far, so that two controllers can be told apart
NoController == [id |-> 0, mode |-> "", scenario |-> "", cycle_count |-> 0]

server_at_import ==
    [is_running |-> FALSE, controller |-> NoController, constructed_count |-> 0,
     threads |-> <<>>, resets |-> <<>>, reset_completed |-> FALSE]

\* the environment, the sensors and the server as constructed, with the
\* arguments s of a sensor call in place
world_constructed_with(s) ==
    /\ collision = no_collision
    /\ overlap_log = <<>>
    /\ obstacles = <<>>
    /\ returned = <<>>
    /\ sensors = SensorArray
    /\ scan = s
    /\ server = server_at_import

world_constructed == world_constructed_with(no_scan)

\* Car(x=250, y=250, theta=0, config): the spawn used by tests/test_physics.py,
\* in hundredths of a world unit, centiradians and hundredths of a unit/s
CarAtRest == [x |-> 25000, y |-> 25000, theta |-> 0, v |-> 0]

car_constructed ==
    /\ car = CarAtRest
    /\ car_pre = CarAtRest
    /\ world_constructed

\* the constructor was given the name of a registered mode and raised nothing
no_error ==
    /\ error = "none"
    /\ mode_arg = mode

----------------------------------------------------------------------------
(* Inputs of the decision function *)

\* largest distance of the dense part of the distance grid (half metres)
MaxDist == 13

\* a key that is left out of the reading map
Absent == -1

FrontDists == (0 .. MaxDist) \cup {SensorMaxRange}
BackDists == {1, 5, SensorMaxRange}

\* speeds in cm/s: reversing, stopped, at the 0.01 m/s limit, crawling, at the
\* 0.5 m/s limit, driving
Speeds == {-50, 0, 1, 5, 50, 200, 500}

\* the dict {FL: fl, FR: fr, BL: bl, BR: br} without the Absent keys
MakeReadings(fl, fr, bl, br) ==
    LET full == [n \in SensorNames |->
                    CASE n = "FL" -> fl [] n = "FR" -> fr
                      [] n = "BL" -> bl [] n = "BR" -> br]
    IN  [n \in {k \in SensorNames : full[k] # Absent} |-> full[n]]

----------------------------------------------------------------------------
(* SpecALU: determine_next_state as a function of the engine state and its  *)
(* arguments.  The engine is constructed in any mode, put in any of the     *)
(* five states (as update_state and the tests do) and called once.          *)

InitALU ==
    /\ op = "init"
    /\ \E m \in ModeNames : alu_fields_constructed(m)
    /\ current_state \in VehicleState
    /\ \E fl \in FrontDists \cup {Absent}, fr \in FrontDists \cup {Absent},
          bl \in BackDists \cup {Absent}, br \in BackDists \cup {Absent} :
            sensor_readings = MakeReadings(fl, fr, bl, br)
    /\ current_speed \in Speeds
    /\ desired_state = "none"
    /\ call_log = <<>>
    /\ control_output = [throttle |-> 0, steering |-> 0, brake |-> 0]
    /\ cmd_state = "none"
    /\ dt_arg = 0
    /\ vehicle_constructed
    /\ no_error
    /\ car_constructed

\* ALUDecisionEngine.determine_next_state(sensor_readings, current_speed)
DetermineNextState ==
    /\ op = "init"
    /\ op' = "determine_next_state"
    /\ hazard_score' = calculate_hazard_score(sensor_readings, config)
    /\ ttc' = calculate_ttc(Min(Get(sensor_readings, "FL"), Get(sensor_readings, "FR")),
                            current_speed)
    /\ desired_state' = determine_next_state(current_state, config,
                                             sensor_readings, current_speed)
    /\ UNCHANGED <<mode, config, current_state, state_candidate, state_hold_count,
                   hysteresis_threshold, state_history>>
    /\ UNCHANGED <<sensor_readings, current_speed, call_log>>
    /\ UNCHANGED <<cmd_vars, vehicle_vars, position_before, mode_vars, car_vars, world_vars>>

NextALU == DetermineNextState

SpecALU == InitALU /\ [][NextALU]_vars

----------------------------------------------------------------------------
(* SpecHazard: calculate_hazard_score called directly on a reading map      *)
(* whose four sensors all range over the dense distance grid.               *)

InitHazard ==
    /\ op = "init"
    /\ \E m \in ModeNames : alu_constructed(m)
    /\ \E fl \in FrontDists \cup {Absent}, fr \in FrontDists \cup {Absent},
          bl \in FrontDists \cup {Absent}, br \in FrontDists \cup {Absent} :
            sensor_readings = MakeReadings(fl, fr, bl, br)
    /\ current_speed = 0
    /\ desired_state = "none"
    /\ call_log = <<>>
    /\ control_output = [throttle |-> 0, steering |-> 0, brake |-> 0]
    /\ cmd_state = "none"
    /\ dt_arg = 0
    /\ vehicle_constructed
    /\ no_error
    /\ car_constructed

\* ALUDecisionEngine.calculate_hazard_score(sensor_readings)
CalculateHazardScore ==
    /\ op = "init"
    /\ op' = "calculate_hazard_score"
    /\ hazard_score' = calculate_hazard_score(sensor_readings, config)
    /\ UNCHANGED <<mode, config, current_state, state_candidate, state_hold_count,
                   hysteresis_threshold, ttc, state_history>>
    /\ UNCHANGED <<call_vars, cmd_vars, vehicle_vars, position_before, mode_vars, car_vars, world_vars>>

NextHazard == CalculateHazardScore

SpecHazard == InitHazard /\ [][NextHazard]_vars

----------------------------------------------------------------------------
(* SpecHyst: an engine constructed in one mode and driven by update_state   *)
(* calls only, so the profile is fixed.                                     *)

\* number of update_state calls of a run
MaxCalls == 6

\* readings and speeds that make every row of the transition table and the
\* predictive override occur in each profile
HystDists == {1, SensorMaxRange}
HystSpeeds == {0, 20, 200}

\* the hysteresis block committing one tick late
hysteresis_strict_commit(desired, candidate, hold_count, threshold, current) ==
    LET new_hold == IF desired = candidate THEN hold_count + 1 ELSE 1
    IN  [state_candidate |-> desired,
         state_hold_count |-> new_hold,
         current_state |-> IF new_hold > threshold THEN desired ELSE current]

\* the hysteresis block restarting the count of a new candidate at 0
hysteresis_restart_at_zero(desired, candidate, hold_count, threshold, current) ==
    LET new_hold == IF desired = candidate THEN hold_count + 1 ELSE 0
    IN  [state_candidate |-> desired,
         state_hold_count |-> new_hold,
         current_state |-> IF new_hold >= threshold THEN desired ELSE current]

\* the hysteresis block never restarting the count
hysteresis_no_restart(desired, candidate, hold_count, threshold, current) ==
    LET new_hold == hold_count + 1
    IN  [state_candidate |-> desired,
         state_hold_count |-> new_hold,
         current_state |-> IF new_hold >= threshold THEN desired ELSE current]

\* update_state, "Hysteresis logic" and "held the candidate state long enough"
hysteresis(desired, candidate, hold_count, threshold, current) ==
    LET new_candidate == IF desired = candidate THEN candidate ELSE desired
        new_hold == IF desired = candidate THEN hold_count + 1 ELSE 1
    IN  [state_candidate |-> new_candidate,
         state_hold_count |-> new_hold,
         current_state |-> IF new_hold >= threshold THEN new_candidate ELSE current]

InitHyst ==
    /\ op = "init"
    /\ \E m \in ModeNames : alu_constructed(m)
    /\ no_calls
    /\ vehicle_constructed
    /\ no_error
    /\ car_constructed

\* ALUDecisionEngine.update_state(readings, spd)
update_state(readings, spd) ==
    LET desired == determine_next_state(current_state, config, readings, spd)
        h == hysteresis(desired, state_candidate, state_hold_count,
                        hysteresis_threshold, current_state)
    IN  /\ hazard_score' = calculate_hazard_score(readings, config)
        /\ ttc' = calculate_ttc(Min(Get(readings, "FL"), Get(readings, "FR")), spd)
        /\ state_candidate' = h.state_candidate
        /\ state_hold_count' = h.state_hold_count
        /\ current_state' = h.current_state
        /\ state_history' = Append(state_history, h.current_state)
        /\ sensor_readings' = readings
        /\ current_speed' = spd
        /\ desired_state' = desired
        /\ call_log' = Append(call_log,
                              [desired |-> desired,
                               candidate_before |-> state_candidate,
                               active_before |-> current_state,
                               active_after |-> h.current_state])
        /\ UNCHANGED <<mode, config, hysteresis_threshold>>

UpdateState ==
    /\ Len(call_log) < MaxCalls
    /\ op' = "update_state"
    /\ \E fl \in HystDists, fr \in HystDists, bl \in HystDists, spd \in HystSpeeds :
           update_state(MakeReadings(fl, fr, bl, SensorMaxRange), spd)
    /\ UNCHANGED <<cmd_vars, vehicle_vars, position_before, mode_vars, car_vars, world_vars>>

NextHyst == UpdateState

SpecHyst == InitHyst /\ [][NextHyst]_vars

-----------------------------------------------------------------------------
(* SpecSteady: a fresh engine in one profile driven by update_state with    *)
(* the same four readings and the same speed on every tick, for as many     *)
(* ticks as one likes. The run is unbounded, so the two fields that grow    *)
(* without limit are kept as far as they can matter: state_hold_count up    *)
(* to MaxHold (it is only compared with hysteresis_threshold <= 5), and     *)
(* state_history in its last MaxHistory entries.                            *)

MaxHold == 5
MaxHistory == 2

SteadyFronts == {1, 3, 5, 8, SensorMaxRange}
SteadyBacks == {1, SensorMaxRange}
SteadySpeeds == {-50, 0, 20, 200}

\* the last MaxHistory entries of a history
recent(history) ==
    IF Len(history) <= MaxHistory
    THEN history
    ELSE SubSeq(history, Len(history) - MaxHistory + 1, Len(history))

\* ALUDecisionEngine.update_state(readings, spd), over an unbounded run
update_state_unbounded(readings, spd) ==
    LET desired == determine_next_state(current_state, config, readings, spd)
        h == hysteresis(desired, state_candidate, state_hold_count,
                        hysteresis_threshold, current_state)
    IN  /\ hazard_score' = calculate_hazard_score(readings, config)
        /\ ttc' = calculate_ttc(Min(Get(readings, "FL"), Get(readings, "FR")), spd)
        /\ state_candidate' = h.state_candidate
        /\ state_hold_count' = Min(h.state_hold_count, MaxHold)
        /\ current_state' = h.current_state
        /\ state_history' = recent(Append(state_history, h.current_state))
        /\ sensor_readings' = readings
        /\ current_speed' = spd
        /\ desired_state' = desired
        /\ UNCHANGED <<mode, config, hysteresis_threshold, call_log>>

\* the engine is fresh and the input of every tick is drawn
InitSteady ==
    /\ op = "init"
    /\ \E m \in ModeNames : alu_constructed(m)
    /\ \E fl \in SteadyFronts, fr \in SteadyFronts, bl \in SteadyBacks :
          sensor_readings = MakeReadings(fl, fr, bl, SensorMaxRange)
    /\ current_speed \in SteadySpeeds
    /\ desired_state = "none"
    /\ call_log = <<>>
    /\ control_output = [throttle |-> 0, steering |-> 0, brake |-> 0]
    /\ cmd_state = "none"
    /\ dt_arg = 0
    /\ vehicle_constructed
    /\ no_error
    /\ car_constructed

\* update_state(sensor_readings, current_speed) with the input of the run
UpdateStateSteady ==
    /\ op' = "update_state"
    /\ update_state_unbounded(sensor_readings, current_speed)
    /\ UNCHANGED <<cmd_vars, vehicle_vars, position_before, mode_vars, car_vars, world_vars>>

NextSteady == UpdateStateSteady

\* the control loop calls update_state on every tick
SpecSteady == InitSteady /\ [][NextSteady]_vars /\ WF_vars(UpdateStateSteady)

----------------------------------------------------------------------------
(* SpecEngine: the life of one ALUDecisionEngine.  It is constructed with   *)
(* any mode name, registered or not, and then receives set_mode,            *)
(* update_state and reset calls in any order.                               *)

\* number of update_state calls of a run
MaxUpdates == 3

\* a mode name that DRIVING_MODES does not register
UnknownModes == {"sporty"}

EngineDists == {1, SensorMaxRange}
EngineSpeeds == {0, 200}

\* an attribute the constructor did not reach
Unassigned == "unassigned"

\* ALUDecisionEngine(name): DRIVING_MODES[name] raises KeyError for a name that
\* is not registered, after self.mode has been assigned; no engine is returned
InitEngine ==
    /\ op = "construct"
    /\ \E name \in ModeNames \cup UnknownModes :
          /\ mode_arg = name
          /\ IF name \in DOMAIN DRIVING_MODES
             THEN /\ alu_constructed(name)
                  /\ error = "none"
             ELSE /\ error = "KeyError"
                  /\ mode = name
                  /\ config = Unassigned
                  /\ current_state = Unassigned
                  /\ state_candidate = Unassigned
                  /\ state_hold_count = Unassigned
                  /\ hysteresis_threshold = Unassigned
                  /\ hazard_score = Unassigned
                  /\ ttc = Unassigned
                  /\ state_history = Unassigned
    /\ no_calls
    /\ vehicle_constructed
    /\ car_constructed

\* the constructor returned an engine
engine_exists == ~(op = "construct" /\ error = "KeyError")

\* the profile is replaced and the threshold in use stays the old one
set_mode_keeps_threshold(m) ==
    /\ IF m \in DOMAIN DRIVING_MODES
       THEN /\ mode' = m
            /\ config' = DRIVING_MODES[m]
            /\ UNCHANGED hysteresis_threshold
       ELSE UNCHANGED <<mode, config, hysteresis_threshold>>
    /\ UNCHANGED <<current_state, state_candidate, state_hold_count,
                   hazard_score, ttc, state_history>>
    /\ error' = "none"
    /\ mode_arg' = m

\* the mode switch also restarts the hysteresis tracker
set_mode_restarts_tracker(m) ==
    /\ IF m \in DOMAIN DRIVING_MODES
       THEN /\ mode' = m
            /\ config' = DRIVING_MODES[m]
            /\ hysteresis_threshold' = DRIVING_MODES[m].hysteresis_cycles
            /\ state_candidate' = current_state
            /\ state_hold_count' = 0
       ELSE UNCHANGED <<mode, config, hysteresis_threshold,
                        state_candidate, state_hold_count>>
    /\ UNCHANGED <<current_state, hazard_score, ttc, state_history>>
    /\ error' = "none"
    /\ mode_arg' = m

\* a name that is not registered selects the normal profile
set_mode_unknown_is_normal(m) ==
    LET name == IF m \in DOMAIN DRIVING_MODES THEN m ELSE "normal"
    IN  /\ mode' = name
        /\ config' = DRIVING_MODES[name]
        /\ hysteresis_threshold' = DRIVING_MODES[name].hysteresis_cycles
        /\ UNCHANGED <<current_state, state_candidate, state_hold_count,
                       hazard_score, ttc, state_history>>
        /\ error' = "none"
        /\ mode_arg' = m

\* ALUDecisionEngine.set_mode(m): a name that is not registered changes
\* nothing and raises nothing
set_mode(m) ==
    /\ IF m \in DOMAIN DRIVING_MODES
       THEN /\ mode' = m
            /\ config' = DRIVING_MODES[m]
            /\ hysteresis_threshold' = DRIVING_MODES[m].hysteresis_cycles
       ELSE UNCHANGED <<mode, config, hysteresis_threshold>>
    /\ UNCHANGED <<current_state, state_candidate, state_hold_count,
                   hazard_score, ttc, state_history>>
    /\ error' = "none"
    /\ mode_arg' = m

\* ALUDecisionEngine.reset()
reset ==
    /\ current_state' = CRUISE
    /\ state_candidate' = CRUISE
    /\ state_hold_count' = 0
    /\ hazard_score' = 0
    /\ ttc' = TTC_INF
    /\ state_history' = <<>>
    /\ UNCHANGED <<mode, config, hysteresis_threshold>>

SetMode ==
    /\ engine_exists
    /\ op' = "set_mode"
    /\ \E m \in ModeNames \cup UnknownModes : set_mode(m)
    /\ UNCHANGED <<call_vars, cmd_vars, vehicle_vars, position_before, car_vars, world_vars>>

EngineUpdateState ==
    /\ engine_exists
    /\ Len(call_log) < MaxUpdates
    /\ op' = "update_state"
    /\ \E fl \in EngineDists, fr \in EngineDists, spd \in EngineSpeeds :
           update_state(MakeReadings(fl, fr, SensorMaxRange, SensorMaxRange), spd)
    /\ error' = "none"
    /\ UNCHANGED <<mode_arg, cmd_vars, vehicle_vars, position_before, car_vars, world_vars>>

Reset ==
    /\ engine_exists
    /\ op' = "reset"
    /\ reset
    /\ error' = "none"
    /\ UNCHANGED <<mode_arg, call_vars, cmd_vars, vehicle_vars, position_before, car_vars, world_vars>>

NextEngine == SetMode \/ EngineUpdateState \/ Reset

SpecEngine == InitEngine /\ [][NextEngine]_vars

----------------------------------------------------------------------------
(* SpecSwitch: a fresh engine in a registered mode receiving update_state   *)
(* and set_mode calls in any order, for as many calls as one likes; the     *)
(* growing fields are kept as in SpecSteady.                                *)

\* ALUDecisionEngine.update_state with any readings and speed
UpdateStateAny ==
    /\ op' = "update_state"
    /\ \E fl \in EngineDists, fr \in EngineDists, bl \in EngineDists, spd \in EngineSpeeds :
           update_state_unbounded(MakeReadings(fl, fr, bl, SensorMaxRange), spd)
    /\ error' = "none"
    /\ UNCHANGED <<mode_arg, cmd_vars, vehicle_vars, position_before, car_vars, world_vars>>

NextSwitch == UpdateStateAny \/ SetMode

SpecSwitch == InitHyst /\ [][NextSwitch]_vars

----------------------------------------------------------------------------
(* SpecVehicle: the actuation half of run_cycle.  A vehicle somewhere in    *)
(* the world, at some heading and speed, is driven by the commands that     *)
(* get_control_output produces, at the nominal dt of 0.1 s and the          *)
(* max_speed of the engine's profile.                                       *)

\* number of apply_control calls of a run
MaxTicks == 2

\* CONTROL_CONFIG['cycle_time_ms'] / 1000.0, in deciseconds
NominalDt == 1

StartPositions == {<<10000, 10000>>, <<600, 19400>>}
StartHeadings == {0, 157, 400, 620}
StartSpeeds == {-100, -11, 0, 5, 60, 200}

InitVehicle ==
    /\ op = "init"
    /\ \E m \in ModeNames : alu_constructed(m)
    /\ no_calls
    /\ position \in StartPositions
    /\ heading \in StartHeadings
    /\ speed \in StartSpeeds
    /\ velocity = <<Quot(speed * cos1000(heading), 100),
                    Quot(speed * sin1000(heading), 100)>>
    /\ heading_before = heading
    /\ speed_before = speed
    /\ position_before = position
    /\ ticks = 0
    /\ no_error
    /\ car_constructed

\* control_output = self.alu.get_control_output(state)
GetControlOutput ==
    /\ op # "get_control_output"
    /\ ticks < MaxTicks
    /\ op' = "get_control_output"
    /\ \E state \in VehicleState \cup UnknownStates :
          /\ cmd_state' = state
          /\ UNCHANGED dt_arg
          /\ control_output' = get_control_output(state)
    /\ UNCHANGED <<alu_vars, call_vars, vehicle_vars, position_before, mode_vars, car_vars, world_vars>>

\* self.vehicle.apply_control(control_output, self.dt, max_speed)
ApplyControl ==
    /\ op = "get_control_output"
    /\ op' = "apply_control"
    /\ apply_control(control_output, NominalDt, config.max_speed)
    /\ dt_arg' = NominalDt
    /\ UNCHANGED <<control_output, cmd_state>>
    /\ UNCHANGED <<alu_vars, call_vars, mode_vars, car_vars, world_vars>>

NextVehicle == GetControlOutput \/ ApplyControl

SpecVehicle == InitVehicle /\ [][NextVehicle]_vars

----------------------------------------------------------------------------
(* SpecIntegrator: one integration tick of each of the two vehicle models.  *)
(* Either a Vehicle is placed anywhere, the world's outside included, at    *)
(* any heading and speed, and apply_control is called with any command and  *)
(* dt; or a Car is, and update is called.                                   *)

\* number of integration ticks of a run
MaxSteps == 1

\* dt in deciseconds: the nominal 0.1 s and a slow frame of 0.5 s
Dts == {1, 5}

Commands ==
    [throttle : {-10, 0, 10}, steering : {-10, 0, 10}, brake : {0, 10}]

VehiclePositions == {<<10000, 10000>>, <<600, 19400>>, <<-300, 25000>>}
VehicleSpeeds == {-300, -100, -11, -2, 0, 1, 2, 5, 200, 600}

CarCoordinates == {400, 1020, 25000, 48980}
CarHeadings == {0, 79, 157, 236, 314, 393, 471, 550}
CarSpeeds == {-4000, 0, 4000, 16000}

InitIntegrator ==
    /\ \E m \in ModeNames : alu_constructed(m)
    /\ no_calls
    /\ no_error
    /\ ticks = 0
    /\ \/ /\ op = "vehicle"
          /\ position \in VehiclePositions
          /\ heading \in StartHeadings
          /\ speed \in VehicleSpeeds
          /\ velocity = <<Quot(speed * cos1000(heading), 100),
                          Quot(speed * sin1000(heading), 100)>>
          /\ heading_before = heading
          /\ speed_before = speed
          /\ position_before = position
          /\ car_constructed
       \/ /\ op = "car"
          /\ car \in [x : CarCoordinates, y : CarCoordinates,
                       theta : CarHeadings, v : CarSpeeds]
          /\ car_pre = car
          /\ position = <<10000, 10000>>
          /\ velocity = <<0, 0>>
          /\ heading = 0
          /\ speed = 0
          /\ heading_before = 0
          /\ speed_before = 0
          /\ position_before = position
          /\ world_constructed

\* vehicle.apply_control(control_output, dt, max_speed) with the max_speed of
\* the profile in use, as run_cycle passes it
ApplyAnyControl ==
    /\ op \in {"vehicle", "apply_control"}
    /\ ticks < MaxSteps
    /\ op' = "apply_control"
    /\ \E ctl \in Commands, dt \in Dts :
          /\ control_output' = ctl
          /\ dt_arg' = dt
          /\ apply_control(ctl, dt, config.max_speed)
    /\ UNCHANGED <<alu_vars, call_vars, cmd_state, mode_vars, car_vars, world_vars>>

\* car.update(dt)
CarUpdate ==
    /\ op \in {"car", "car_update"}
    /\ ticks < MaxSteps
    /\ op' = "car_update"
    /\ \E dt \in Dts : update(dt)
    /\ ticks' = ticks + 1
    /\ UNCHANGED <<alu_vars, call_vars, cmd_vars, mode_vars>>
    /\ UNCHANGED <<position, velocity, heading, speed, heading_before, speed_before,
                   position_before, world_vars>>

NextIntegrator == ApplyAnyControl \/ CarUpdate

SpecIntegrator == InitIntegrator /\ [][NextIntegrator]_vars

----------------------------------------------------------------------------
(* SpecWorld: the Environment of a controller and the collision check of    *)
(* its Vehicle.  The environment starts empty (scenario 'empty'), obstacles *)
(* are added and removed, get_obstacles is called as the sensing step of    *)
(* run_cycle calls it, and check_collision as its last step calls it.       *)
(* Obstacles are records of a position and a radius in millimetres.         *)

\* number of check_collision calls of a run
MaxChecks == 4

\* length of Environment.obstacles
MaxObstacles == 2

\* obstacles around the vehicle at (10.0, 10.0), radius 0.5: one overlapping,
\* one exactly touching (centre distance = sum of radii), one far away
ObstacleChoices ==
    {[pos |-> <<10600, 10000>>, radius |-> 500],
     [pos |-> <<10600, 10800>>, radius |-> 500],
     [pos |-> <<15000, 15000>>, radius |-> 800]}

\* check_collision, "distance < (self.radius + obstacle_radius)", squared
hits(pos, obstacle) ==
    LET dx == pos[1] - obstacle.pos[1]
        dy == pos[2] - obstacle.pos[2]
        reach == vehicle_radius + obstacle.radius
    IN  dx * dx + dy * dy < reach * reach

\* the counter goes up in every call that finds an overlap
RECURSIVE check_loop_counts_every_call(_, _, _, _, _)
check_loop_counts_every_call(pos, obs, i, was_in_collision, count) ==
    IF i > Len(obs)
    THEN [in_collision |-> FALSE, collision_count |-> count]
    ELSE IF hits(pos, obs[i])
         THEN [in_collision |-> TRUE, collision_count |-> count + 1]
         ELSE check_loop_counts_every_call(pos, obs, i + 1, was_in_collision, count)

\* check_collision, the loop over the obstacles from the i-th on
RECURSIVE check_loop(_, _, _, _, _)
check_loop(pos, obs, i, was_in_collision, count) ==
    IF i > Len(obs)
    THEN [in_collision |-> FALSE, collision_count |-> count]
    ELSE IF hits(pos, obs[i])
         THEN [in_collision |-> TRUE,
               collision_count |-> IF was_in_collision THEN count ELSE count + 1]
         ELSE check_loop(pos, obs, i + 1, was_in_collision, count)

\* Vehicle.check_collision(obs)
check_collision(obs) ==
    check_loop(position, obs, 1, collision.in_collision, collision.collision_count)

\* the list object get_obstacles hands out: Environment.obstacles itself
\* (alias), with its contents at the time of the call kept for reference
get_obstacles == [alias |-> TRUE, at_return |-> obstacles]

\* what a holder of the returned list reads from it now
contents(list) == IF list.alias THEN obstacles ELSE list.at_return

\* list.pop(index), 0-based
pop(list, index) ==
    [k \in 1 .. (Len(list) - 1) |-> IF k <= index THEN list[k] ELSE list[k + 1]]

InitWorld ==
    /\ op = "init"
    /\ \E m \in ModeNames : alu_constructed(m)
    /\ no_calls
    /\ vehicle_constructed
    /\ no_error
    /\ car_constructed

\* environment.add_obstacle(x, y, radius)
AddObstacle ==
    /\ Len(obstacles) < MaxObstacles
    /\ op' = "add_obstacle"
    /\ \E o \in ObstacleChoices : obstacles' = Append(obstacles, o)
    /\ UNCHANGED <<collision, overlap_log, returned, sensors, scan, server>>
    /\ UNCHANGED <<alu_vars, call_vars, cmd_vars, vehicle_vars, position_before,
                   mode_vars, car_vars>>

\* environment.remove_obstacle(index): an index out of range changes nothing
RemoveObstacle ==
    /\ op' = "remove_obstacle"
    /\ \E index \in -1 .. MaxObstacles :
          obstacles' = IF 0 <= index /\ index < Len(obstacles)
                       THEN pop(obstacles, index)
                       ELSE obstacles
    /\ UNCHANGED <<collision, overlap_log, returned, sensors, scan, server>>
    /\ UNCHANGED <<alu_vars, call_vars, cmd_vars, vehicle_vars, position_before,
                   mode_vars, car_vars>>

\* run_cycle, the sensing step: self.environment.get_obstacles()
GetObstacles ==
    /\ op' = "get_obstacles"
    /\ returned' = get_obstacles
    /\ UNCHANGED <<collision, overlap_log, obstacles, sensors, scan, server>>
    /\ UNCHANGED <<alu_vars, call_vars, cmd_vars, vehicle_vars, position_before,
                   mode_vars, car_vars>>

\* run_cycle, the last step:
\* self.vehicle.check_collision(self.environment.get_obstacles())
CheckCollision ==
    /\ Len(overlap_log) < MaxChecks
    /\ op' = "check_collision"
    /\ returned' = get_obstacles
    /\ collision' = check_collision(obstacles)
    /\ overlap_log' =
          Append(overlap_log, \E i \in 1 .. Len(obstacles) : hits(position, obstacles[i]))
    /\ UNCHANGED <<obstacles, sensors, scan, server>>
    /\ UNCHANGED <<alu_vars, call_vars, cmd_vars, vehicle_vars, position_before,
                   mode_vars, car_vars>>

NextWorld == AddObstacle \/ RemoveObstacle \/ GetObstacles \/ CheckCollision

SpecWorld == InitWorld /\ [][NextWorld]_vars

-----------------------------------------------------------------------------
(* SpecLoop: AutonomousVehicleController.run_cycle, tick after tick without *)
(* limit. The readings of a tick are what the sensor scan hands to          *)
(* update_state: the road is open until one of the LoopReadings appears,    *)
(* at any tick, and then stays; the environment's obstacle list is empty.   *)
(* The speed is the vehicle's. state_hold_count and state_history are as    *)
(* in SpecSteady; cycle_count and telemetry_log, which only grow and are    *)
(* never read back by the control path, are not part of the state.          *)

\* open road; front blocked; front and rear blocked; left front blocked
LoopReadings ==
    {MakeReadings(SensorMaxRange, SensorMaxRange, SensorMaxRange, SensorMaxRange),
     MakeReadings(1, 1, SensorMaxRange, SensorMaxRange),
     MakeReadings(1, 1, 1, SensorMaxRange),
     MakeReadings(1, SensorMaxRange, SensorMaxRange, SensorMaxRange)}

OpenRoad ==
    {MakeReadings(SensorMaxRange, SensorMaxRange, SensorMaxRange, SensorMaxRange)}

InitLoop ==
    /\ op = "init"
    /\ \E m \in ModeNames : alu_constructed(m)
    /\ no_calls
    /\ vehicle_constructed
    /\ no_error
    /\ car_constructed

\* run_cycle with the readings of the tick taken from scenes: update_state,
\* get_control_output, apply_control, check_collision
run_cycle(scenes) ==
    \E readings \in scenes :
        /\ op' = "run_cycle"
        /\ update_state_unbounded(readings, speed)
        /\ cmd_state' = current_state'
        /\ control_output' = get_control_output(current_state')
        /\ dt_arg' = NominalDt
        /\ speed' = new_speed(control_output', speed, NominalDt,
                              DRIVING_MODES[mode].max_speed)
        /\ heading' = new_heading(control_output', heading, speed', NominalDt)
        /\ velocity' = <<Quot(speed' * cos1000(heading'), 100),
                         Quot(speed' * sin1000(heading'), 100)>>
        /\ position' =
              enforce_boundaries(<<position[1] + Quot(velocity'[1] * NominalDt, 10),
                                   position[2] + Quot(velocity'[2] * NominalDt, 10)>>)
        /\ heading_before' = heading
        /\ position_before' = position
        /\ speed_before' = speed
        /\ returned' = get_obstacles
        /\ collision' = check_loop(position', contents(get_obstacles), 1,
                                   collision.in_collision, collision.collision_count)
        /\ UNCHANGED <<ticks, overlap_log, obstacles, sensors, scan, server>>
        /\ UNCHANGED <<mode_vars, car_vars>>

\* the readings the scan can return on this tick
scenes_now ==
    IF sensor_readings = << >> \/ sensor_readings \in OpenRoad
    THEN LoopReadings
    ELSE {sensor_readings}

RunCycle == run_cycle(scenes_now)

NextLoop == RunCycle

\* simulation_loop and run_simulation call run_cycle again and again
SpecLoop == InitLoop /\ [][NextLoop]_vars /\ WF_vars(RunCycle)

\* the same loop in an obstacle-free scene: every reading is max_range
RunCycleOpenRoad == run_cycle(OpenRoad)

NextOpenRoad == RunCycleOpenRoad

SpecOpenRoad == InitLoop /\ [][NextOpenRoad]_vars /\ WF_vars(RunCycleOpenRoad)

-----------------------------------------------------------------------------
(* backend_server.py: the request handlers /api/start, /api/pause and       *)
(* /api/reset and the simulation_loop threads they start. A handler runs    *)
(* as one step, except reset_simulation, which sleeps 0.2 s between         *)
(* clearing is_running and replacing the controller. A loop thread is at    *)
(* its while test ("test"), inside controller.run_cycle() ("run_cycle"),    *)
(* in time.sleep(controller.dt) ("sleep"), or has returned ("done").        *)
(* reset_completed records that the last request to change the controller   *)
(* was a /api/reset that has returned, with no /api/start since.            *)

MaxThreads == 2
MaxControllers == 2

\* cycle_count is kept up to MaxCycles
MaxCycles == 1

RequestModes == {"normal", "cautious"}
Scenarios == {"random", "corridor"}

\* AutonomousVehicleController(mode=mode, scenario=scenario, test_mode=False)
AutonomousVehicleController(m, scenario) ==
    [id |-> server.constructed_count + 1, mode |-> m, scenario |-> scenario,
     cycle_count |-> 0]

alive(thread) == thread.pc # "done"

InitServer ==
    /\ op = "init"
    /\ \E m \in ModeNames : alu_constructed(m)
    /\ no_calls
    /\ vehicle_constructed
    /\ no_error
    /\ car_constructed

\* POST /api/start
StartSimulation ==
    \E m \in RequestModes, scenario \in Scenarios :
        LET needed == \/ server.controller = NoController
                      \/ server.controller.mode # m
                      \/ server.controller.scenario # scenario
            started == ~server.is_running
        IN  /\ needed => server.constructed_count < MaxControllers
            /\ started => Len(server.threads) < MaxThreads
            /\ op' = "start"
            /\ server' =
                 [server EXCEPT
                    !.controller = IF needed
                                   THEN AutonomousVehicleController(m, scenario)
                                   ELSE @,
                    !.constructed_count = IF needed THEN @ + 1 ELSE @,
                    !.is_running = TRUE,
                    !.reset_completed = FALSE,
                    !.threads = IF started
                                THEN Append(@, [pc |-> "test", ctl |-> 0])
                                ELSE @]
            /\ UNCHANGED <<collision, overlap_log, obstacles, returned, sensors, scan>>
            /\ UNCHANGED <<alu_vars, call_vars, cmd_vars, vehicle_vars,
                           position_before, mode_vars, car_vars>>

\* POST /api/pause
PauseSimulation ==
    /\ op' = "pause"
    /\ server' = [server EXCEPT !.is_running = FALSE]
    /\ UNCHANGED <<collision, overlap_log, obstacles, returned, sensors, scan>>
    /\ UNCHANGED <<alu_vars, call_vars, cmd_vars, vehicle_vars,
                   position_before, mode_vars, car_vars>>

\* POST /api/reset, up to time.sleep(0.2)
ResetSimulation ==
    \E m \in RequestModes, scenario \in Scenarios :
        /\ server.constructed_count + Len(server.resets) < MaxControllers
        /\ op' = "reset"
        /\ server' = [server EXCEPT
                        !.is_running = FALSE,
                        !.resets = Append(@, [mode |-> m, scenario |-> scenario])]
        /\ UNCHANGED <<collision, overlap_log, obstacles, returned, sensors, scan>>
        /\ UNCHANGED <<alu_vars, call_vars, cmd_vars, vehicle_vars,
                       position_before, mode_vars, car_vars>>

\* POST /api/reset, after time.sleep(0.2): the controller is replaced
ResetSimulationWakes ==
    \E k \in 1 .. Len(server.resets) :
        /\ op' = "reset_wakes"
        /\ server' =
             [server EXCEPT
                !.controller = AutonomousVehicleController(server.resets[k].mode,
                                                           server.resets[k].scenario),
                !.constructed_count = @ + 1,
                !.reset_completed = TRUE,
                !.resets = [j \in 1 .. (Len(@) - 1) |->
                              IF j < k THEN @[j] ELSE @[j + 1]]]
        /\ UNCHANGED <<collision, overlap_log, obstacles, returned, sensors, scan>>
        /\ UNCHANGED <<alu_vars, call_vars, cmd_vars, vehicle_vars,
                       position_before, mode_vars, car_vars>>

\* simulation_loop: while is_running and controller: ... controller.run_cycle()
LoopTest ==
    \E t \in 1 .. Len(server.threads) :
        /\ server.threads[t].pc = "test"
        /\ op' = "loop_test"
        /\ server' =
             [server EXCEPT
                !.threads[t] =
                    IF server.is_running /\ server.controller # NoController
                    THEN [pc |-> "run_cycle", ctl |-> server.controller.id]
                    ELSE [pc |-> "done", ctl |-> 0]]
        /\ UNCHANGED <<collision, overlap_log, obstacles, returned, sensors, scan>>
        /\ UNCHANGED <<alu_vars, call_vars, cmd_vars, vehicle_vars,
                       position_before, mode_vars, car_vars>>

\* simulation_loop: run_cycle returns after self.cycle_count += 1 on the
\* controller it was called on, the telemetry is emitted, and the thread
\* goes to time.sleep(controller.dt)
LoopRunCycleReturns ==
    \E t \in 1 .. Len(server.threads) :
        /\ server.threads[t].pc = "run_cycle"
        /\ op' = "loop_run_cycle"
        /\ server' =
             [server EXCEPT
                !.threads[t] = [pc |-> "sleep", ctl |-> 0],
                !.controller =
                    IF @.id = server.threads[t].ctl
                    THEN [@ EXCEPT !.cycle_count = Min(@ + 1, MaxCycles)]
                    ELSE @]
        /\ UNCHANGED <<collision, overlap_log, obstacles, returned, sensors, scan>>
        /\ UNCHANGED <<alu_vars, call_vars, cmd_vars, vehicle_vars,
                       position_before, mode_vars, car_vars>>

\* simulation_loop: except Exception: is_running = False; break
LoopRaises ==
    \E t \in 1 .. Len(server.threads) :
        /\ server.threads[t].pc = "run_cycle"
        /\ op' = "loop_raises"
        /\ server' = [server EXCEPT !.is_running = FALSE,
                                    !.threads[t] = [pc |-> "done", ctl |-> 0]]
        /\ UNCHANGED <<collision, overlap_log, obstacles, returned, sensors, scan>>
        /\ UNCHANGED <<alu_vars, call_vars, cmd_vars, vehicle_vars,
                       position_before, mode_vars, car_vars>>

\* simulation_loop: time.sleep(controller.dt) returns
LoopSleepReturns ==
    \E t \in 1 .. Len(server.threads) :
        /\ server.threads[t].pc = "sleep"
        /\ op' = "loop_sleep"
        /\ server' = [server EXCEPT !.threads[t] = [pc |-> "test", ctl |-> 0]]
        /\ UNCHANGED <<collision, overlap_log, obstacles, returned, sensors, scan>>
        /\ UNCHANGED <<alu_vars, call_vars, cmd_vars, vehicle_vars,
                       position_before, mode_vars, car_vars>>

NextServer ==
    \/ StartSimulation
    \/ PauseSimulation
    \/ ResetSimulation
    \/ ResetSimulationWakes
    \/ LoopTest
    \/ LoopRunCycleReturns
    \/ LoopRaises
    \/ LoopSleepReturns

SpecServer == InitServer /\ [][NextServer]_vars

-----------------------------------------------------------------------------
(* sensors.py: SensorArray.raycast, _raycast_circle and update. Poses and   *)
(* obstacles are chosen so that every ray is parallel to an axis and every  *)
(* intersection falls on an even number of length units; the square root    *)
(* and the divisions of the code are then exact in integers.                *)

MaxCircles == 2
MaxScans == 3

\* closest accepted root: t > 0.01
RayEpsilon == 2

\* (math.cos(ray_angle), math.sin(ray_angle)) for ray_angle a multiple of 90
ray_direction(ray_angle) ==
    CASE ray_angle % 360 = 0 -> <<1, 0>>
      [] ray_angle % 360 = 90 -> <<0, 1>>
      [] ray_angle % 360 = 180 -> <<-1, 0>>
      [] ray_angle % 360 = 270 -> <<0, -1>>

\* math.sqrt(discriminant): the largest k in lo .. hi with k*k <= n
RECURSIVE sqrt_between(_, _, _)
sqrt_between(n, lo, hi) ==
    IF lo >= hi
    THEN lo
    ELSE LET mid == (lo + hi + 1) \div 2
         IN  IF mid * mid <= n
             THEN sqrt_between(n, mid, hi)
             ELSE sqrt_between(n, lo, mid - 1)

sqrt(n) == sqrt_between(n, 0, Min(n, 46340))

\* the far root is taken instead of the near one
raycast_circle_far_root(ray_start_x, ray_start_y, ray_dx, ray_dy, circle) ==
    LET fx == ray_start_x - circle[1]
        fy == ray_start_y - circle[2]
        a == ray_dx * ray_dx + ray_dy * ray_dy
        b == 2 * (fx * ray_dx + fy * ray_dy)
        c == fx * fx + fy * fy - circle[3] * circle[3]
        discriminant == b * b - 4 * a * c
        t2 == (-b + sqrt(discriminant)) \div (2 * a)
    IN  IF a = 0 \/ discriminant < 0 \/ t2 <= RayEpsilon
        THEN max_range
        ELSE Min(t2, max_range)

\* SensorArray._raycast_circle, circle = (circle_x, circle_y, circle_radius)
raycast_circle(ray_start_x, ray_start_y, ray_dx, ray_dy, circle) ==
    LET fx == ray_start_x - circle[1]
        fy == ray_start_y - circle[2]
        a == ray_dx * ray_dx + ray_dy * ray_dy
        b == 2 * (fx * ray_dx + fy * ray_dy)
        c == fx * fx + fy * fy - circle[3] * circle[3]
        discriminant == b * b - 4 * a * c
        sqrt_disc == sqrt(discriminant)
        t1 == (-b - sqrt_disc) \div (2 * a)
        t2 == (-b + sqrt_disc) \div (2 * a)
    IN  IF a = 0
        THEN max_range
        ELSE IF discriminant < 0
        THEN max_range
        ELSE IF t1 > RayEpsilon
        THEN Min(Min(t1, t2), max_range)
        ELSE IF t2 > RayEpsilon
        THEN Min(t2, max_range)
        ELSE max_range

\* the reading is the distance of the last obstacle of the list that is hit
RECURSIVE raycast_loop_keeps_last(_, _, _, _, _, _, _)
raycast_loop_keeps_last(car_x, car_y, ray_dx, ray_dy, obs, i, min_distance) ==
    IF i > Len(obs)
    THEN min_distance
    ELSE LET dist == raycast_circle(car_x, car_y, ray_dx, ray_dy, obs[i])
         IN  raycast_loop_keeps_last(car_x, car_y, ray_dx, ray_dy, obs, i + 1,
                                     IF dist < max_range THEN dist ELSE min_distance)

\* raycast, the loop over the obstacles for one sensor:
\* if dist < min_distance: min_distance = dist
RECURSIVE raycast_loop(_, _, _, _, _, _, _)
raycast_loop(car_x, car_y, ray_dx, ray_dy, obs, i, min_distance) ==
    IF i > Len(obs)
    THEN min_distance
    ELSE LET dist == raycast_circle(car_x, car_y, ray_dx, ray_dy, obs[i])
         IN  raycast_loop(car_x, car_y, ray_dx, ray_dy, obs, i + 1,
                          IF dist < min_distance THEN dist ELSE min_distance)

\* SensorArray.raycast(car_x, car_y, car_theta, obstacles)
raycast(car_x, car_y, car_theta, obs) ==
    [n \in SensorNames |->
        LET ray == ray_direction(car_theta + sensor_offsets[n])
        IN  raycast_loop(car_x, car_y, ray[1], ray[2], obs, 1, max_range)]

\* the car at (5.0, 5.0), headed so that the four rays lie along the axes
RayPoses == {<<1000, 1000, 45>>, <<1000, 1000, 135>>,
             <<1000, 1000, 225>>, <<1000, 1000, 315>>}

\* obstacles (x, y, radius): ahead on the +x axis at 3.0 with radius 0.5; on
\* the +x axis with its surface 0.01 from the car centre; around the car
\* centre; beside the +x axis; on the +y axis with its surface beyond
\* max_range, and with its centre beyond max_range but its surface within;
\* on the -x axis
CircleChoices ==
    {<<1600, 1000, 100>>, <<1102, 1000, 100>>, <<1060, 1000, 100>>,
     <<1600, 1060, 100>>, <<1000, 3200, 100>>, <<1000, 3050, 100>>,
     <<400, 1000, 200>>}

CircleLists == UNION {[1 .. k -> CircleChoices] : k \in 0 .. MaxCircles}

\* the raycast arguments are drawn; the call has not yet returned
InitRaycast ==
    /\ op = "init"
    /\ \E m \in ModeNames : alu_constructed(m)
    /\ no_calls
    /\ vehicle_constructed
    /\ no_error
    /\ car = CarAtRest
    /\ car_pre = CarAtRest
    /\ \E pose \in RayPoses, obs \in CircleLists :
          world_constructed_with([x |-> pose[1], y |-> pose[2], theta |-> pose[3],
                                  obstacles |-> obs, readings |-> <<>>])

\* sensors.raycast(car_x, car_y, car_theta, obstacles)
Raycast(car_x, car_y, car_theta, obs) ==
    /\ op' = "raycast"
    /\ scan' = [x |-> car_x, y |-> car_y, theta |-> car_theta,
                obstacles |-> obs,
                readings |-> raycast(car_x, car_y, car_theta, obs)]
    /\ UNCHANGED <<collision, overlap_log, obstacles, returned, sensors, server>>
    /\ UNCHANGED <<alu_vars, call_vars, cmd_vars, vehicle_vars,
                   position_before, mode_vars, car_vars>>

RaycastDrawn ==
    /\ op = "init"
    /\ Raycast(scan.x, scan.y, scan.theta, scan.obstacles)

NextRaycast == RaycastDrawn

SpecRaycast == InitRaycast /\ [][NextRaycast]_vars

-----------------------------------------------------------------------------
(* sensors.py: SensorArray.update with its noise and filter switches. The   *)
(* Gaussian samples of one call are drawn from NoiseSamples; every distance *)
(* is an even number of length units and the window holds two readings, so  *)
(* the mean of a window is exact.                                           *)

\* the four samples of random.gauss(0, noise_std) of one call: all a little
\* above zero, all far below, and one sensor far below with the others far
\* above
NoiseSamples ==
    {[n \in SensorNames |-> 40],
     [n \in SensorNames |-> -3000],
     [n \in SensorNames |-> IF n = "FR" THEN -3000 ELSE 3000]}

UpdatePoses == {<<1000, 1000, 45>>}
UpdateLists == {<< >>, << <<1600, 1000, 100>> >>,
                << <<1600, 1060, 100>>, <<400, 1000, 200>> >>}

\* the noisy distance is not clamped
noisy_unclamped(sa, raw_dist, gauss) ==
    IF sa.noise_enabled /\ SensorArrayConfig.noise_std > 0
    THEN raw_dist + gauss
    ELSE raw_dist

\* update: noisy_dist = max(0, min(raw_dist + random.gauss(0, noise_std), max_range))
noisy(sa, raw_dist, gauss) ==
    IF sa.noise_enabled /\ SensorArrayConfig.noise_std > 0
    THEN Max(0, Min(raw_dist + gauss, max_range))
    ELSE raw_dist

\* deque(maxlen=filter_size).append(value)
deque_append(history, value) ==
    IF Len(history) < SensorArrayConfig.filter_size
    THEN Append(history, value)
    ELSE Append(Tail(history), value)

RECURSIVE sum(_)
sum(history) ==
    IF history = << >> THEN 0 ELSE Head(history) + sum(Tail(history))

\* update: the filter history of sensor n after the call
history_after(sa, n, noisy_dist) ==
    IF sa.filter_enabled
    THEN deque_append(sa.filter_history[n], noisy_dist)
    ELSE sa.filter_history[n]

\* the moving average is applied whatever the switch says
filtered_always(sa, n, noisy_dist) ==
    sum(deque_append(sa.filter_history[n], noisy_dist))
        \div Len(deque_append(sa.filter_history[n], noisy_dist))

\* update: filtered_dist = sum(history) / len(history) if filter_enabled
filtered(sa, n, noisy_dist) ==
    IF sa.filter_enabled
    THEN sum(history_after(sa, n, noisy_dist))
            \div Len(history_after(sa, n, noisy_dist))
    ELSE noisy_dist

InitSensors ==
    /\ op = "init"
    /\ alu_constructed("normal")
    /\ no_calls
    /\ vehicle_constructed
    /\ no_error
    /\ car_constructed

\* sensors.set_noise_enabled(enabled)
SetNoiseEnabled ==
    \E enabled \in BOOLEAN :
        /\ op' = "set_noise_enabled"
        /\ sensors' = [sensors EXCEPT !.noise_enabled = enabled]
        /\ UNCHANGED <<collision, overlap_log, obstacles, returned, scan, server>>
        /\ UNCHANGED <<alu_vars, call_vars, cmd_vars, vehicle_vars,
                       position_before, mode_vars, car_vars>>

\* sensors.set_filter_enabled(enabled)
SetFilterEnabled ==
    \E enabled \in BOOLEAN :
        /\ op' = "set_filter_enabled"
        /\ sensors' = [sensors EXCEPT !.filter_enabled = enabled]
        /\ UNCHANGED <<collision, overlap_log, obstacles, returned, scan, server>>
        /\ UNCHANGED <<alu_vars, call_vars, cmd_vars, vehicle_vars,
                       position_before, mode_vars, car_vars>>

\* sensors.reset_filters()
ResetFilters ==
    /\ op' = "reset_filters"
    /\ sensors' = [sensors EXCEPT !.filter_history = [n \in SensorNames |-> << >>]]
    /\ UNCHANGED <<collision, overlap_log, obstacles, returned, scan, server>>
    /\ UNCHANGED <<alu_vars, call_vars, cmd_vars, vehicle_vars,
                   position_before, mode_vars, car_vars>>

\* sensors.update(car_x, car_y, car_theta, obstacles), timestamp left None
SensorUpdate ==
    \E pose \in UpdatePoses, obs \in UpdateLists, gauss \in NoiseSamples :
        LET raw_distances == raycast(pose[1], pose[2], pose[3], obs)
            noisy_distances ==
                [n \in SensorNames |-> noisy(sensors, raw_distances[n], gauss[n])]
            filtered_distances ==
                [n \in SensorNames |-> filtered(sensors, n, noisy_distances[n])]
        IN  /\ sensors.timestamp < MaxScans
            /\ op' = "update"
            /\ sensors' =
                 [sensors EXCEPT
                    !.timestamp = @ + 1,
                    !.filter_history =
                        [n \in SensorNames |->
                            history_after(sensors, n, noisy_distances[n])],
                    !.latest_readings =
                        [n \in SensorNames |->
                            [raw_distance |-> raw_distances[n],
                             filtered_distance |-> filtered_distances[n],
                             timestamp |-> sensors.timestamp + 1]]]
            /\ scan' = [x |-> pose[1], y |-> pose[2], theta |-> pose[3],
                        obstacles |-> obs, readings |-> filtered_distances]
            /\ UNCHANGED <<collision, overlap_log, obstacles, returned, server>>
            /\ UNCHANGED <<alu_vars, call_vars, cmd_vars, vehicle_vars,
                           position_before, mode_vars, car_vars>>

NextSensors ==
    \/ SetNoiseEnabled
    \/ SetFilterEnabled
    \/ ResetFilters
    \/ SensorUpdate

SpecSensors == InitSensors /\ [][NextSensors]_vars

----------------------------------------------------------------------------
(* Claims about determine_next_state (SpecALU) *)

FrontOf(readings) == Min(Get(readings, "FL"), Get(readings, "FR"))
RearOf(readings) == Min(Get(readings, "BL"), Get(readings, "BR"))

\* min(FL, FR)/speed < ttc_threshold and speed > 0.5
OverrideApplies(readings, spd, cfg) ==
    /\ spd > 50
    /\ SecondsScale * FrontOf(readings) < cfg.ttc_threshold * spd

\* the transition table as the specification words it
TransitionTable(cur, readings, spd, cfg) ==
    LET D == cfg.danger_threshold
        FL == Get(readings, "FL")
        FR == Get(readings, "FR")
        front == FrontOf(readings)
        rear == RearOf(readings)
    IN  CASE cur = EMERGENCY_BRAKE ->
                IF 2 * front > 3 * D THEN CRUISE
                ELSE IF spd < 10 THEN REVERSING ELSE EMERGENCY_BRAKE
          [] cur = REVERSING ->
                IF rear < D THEN EMERGENCY_BRAKE
                ELSE IF front > 2 * D THEN CRUISE ELSE REVERSING
          [] cur = AVOID_LEFT ->
                IF 2 * FL > 3 * D /\ 2 * FR > 3 * D THEN CRUISE
                ELSE IF FR < D THEN AVOID_RIGHT ELSE AVOID_LEFT
          [] cur = AVOID_RIGHT ->
                IF 2 * FL > 3 * D /\ 2 * FR > 3 * D THEN CRUISE
                ELSE IF FL < D THEN AVOID_LEFT ELSE AVOID_RIGHT
          [] cur = CRUISE ->
                IF front < D
                THEN (IF FL < D /\ FR < D THEN EMERGENCY_BRAKE
                      ELSE IF FL < FR THEN AVOID_RIGHT ELSE AVOID_LEFT)
                ELSE CRUISE

C4_CruiseSteersAwayFromBlockedSide ==
    (op = "determine_next_state" /\ mode = "normal" /\ current_state = CRUISE
        /\ current_speed = 200)
    => /\ sensor_readings = MakeReadings(2, 20, 20, 20) => desired_state = AVOID_RIGHT
       /\ sensor_readings = MakeReadings(20, 2, 20, 20) => desired_state = AVOID_LEFT

\* C6: whenever the predictive override does not apply, determine_next_state
\* returns exactly the transition-table result for the active state.
C6_TransitionTable ==
    (op = "determine_next_state"
        /\ ~OverrideApplies(sensor_readings, current_speed, config))
    => desired_state =
          TransitionTable(current_state, sensor_readings, current_speed, config)

\* a table row other than "stay": Reversing leaves for Cruise once the front
\* is clear beyond twice the danger threshold
C6_Witness ==
    /\ op = "determine_next_state"
    /\ ~OverrideApplies(sensor_readings, current_speed, config)
    /\ current_state = REVERSING
    /\ FrontOf(sensor_readings) > 2 * config.danger_threshold
    /\ FrontOf(sensor_readings) < INF
    /\ desired_state = CRUISE

\* C12: after determine_next_state(readings, speed) the stored ttc is
\* infinity whenever speed < 0.01 (zero and every negative speed included) and
\* otherwise equals min(FL, FR)/speed; the division never has a zero divisor.
C12_TtcValue ==
    op = "determine_next_state" =>
        IF current_speed < 1
        THEN ttc = TTC_INF
        ELSE IF FrontOf(sensor_readings) >= INF
             THEN ttc = TTC_INF
             ELSE /\ ttc.den > 0
                  /\ ttc.num * current_speed
                        = SecondsScale * FrontOf(sensor_readings) * ttc.den

\* the slowest speed that is divided by: 0.01 m/s with an obstacle in front
C12_Witness ==
    /\ op = "determine_next_state"
    /\ current_speed = 1
    /\ FrontOf(sensor_readings) < INF
    /\ ttc # TTC_INF

\* the reading map with each missing key present at the sensor max_range
WithMaxRange(readings) ==
    [n \in SensorNames |->
        IF n \in DOMAIN readings THEN readings[n] ELSE SensorMaxRange]

\* the state update_state returns when determine_next_state returned desired
Committed(desired) ==
    hysteresis(desired, state_candidate, state_hold_count,
               hysteresis_threshold, current_state).current_state

\* determine_next_state and update_state answer as for the completed map
SameAsWithMaxRange ==
    LET completed == determine_next_state(current_state, config,
                        WithMaxRange(sensor_readings), current_speed)
    IN  /\ error = "none"
        /\ desired_state = completed
        /\ Committed(desired_state) = Committed(completed)

\* C14 (as stated): for a reading map lacking any subset of the keys FL, FR,
\* BL, BR, determine_next_state and update_state raise no error and, for every
\* active state and speed, return the same state as for the map in which each
\* missing key is present with the sensor max_range value.
C14_MissingKeysAsMaxRange ==
    op = "determine_next_state" => SameAsWithMaxRange

\* C14 (amended): the same, for every speed at which a front distance of
\* max_range does not itself fire the predictive brake (speed <= 0.5 or
\* max_range/speed >= ttc_threshold); every speed up to the profile's
\* max_speed is such a speed.
C14_MissingKeysAsMaxRangeBelowBrakeSpeed ==
    op = "determine_next_state" =>
        LET fires == OverrideApplies(WithMaxRange(<< >>), current_speed, config)
        IN  /\ ~fires => SameAsWithMaxRange
            /\ current_speed <= config.max_speed => ~fires

\* both front keys are missing, the car is driving and the engine leaves
\* EmergencyBrake because nothing is in front
C14_Witness ==
    /\ op = "determine_next_state"
    /\ "FL" \notin DOMAIN sensor_readings
    /\ "FR" \notin DOMAIN sensor_readings
    /\ current_speed = 200
    /\ current_state = EMERGENCY_BRAKE
    /\ desired_state = CRUISE

----------------------------------------------------------------------------
(* Claims about calculate_hazard_score (SpecHazard) *)

\* the danger value of one distance as the specification words it
DangerOf(d, cfg) ==
    CASE d <= cfg.danger_threshold -> HazardOne
      [] d > cfg.danger_threshold /\ d <= cfg.warning_threshold ->
            ((cfg.warning_threshold - d) * HazardOne)
                \div (cfg.warning_threshold - cfg.danger_threshold)
      [] OTHER -> 0

\* v is the maximum of the danger values of the sensors present (0 if none)
IsMaxDanger(v, readings, cfg) ==
    /\ \A n \in DOMAIN readings : DangerOf(readings[n], cfg) <= v
    /\ \/ \E n \in DOMAIN readings : DangerOf(readings[n], cfg) = v
       \/ DOMAIN readings = {} /\ v = 0

\* C9: for every reading map and profile calculate_hazard_score returns a
\* value in [0,1] that is the maximum over the sensors of the danger value;
\* it is 0.0 when every distance exceeds warning_threshold and 1.0 when at
\* least one distance is <= danger_threshold.
C9_HazardIsMaxDanger ==
    op = "calculate_hazard_score" =>
        /\ hazard_score \in 0 .. HazardOne
        /\ IsMaxDanger(hazard_score, sensor_readings, config)
        /\ (\A n \in DOMAIN sensor_readings :
                sensor_readings[n] > config.warning_threshold) => hazard_score = 0
        /\ (\E n \in DOMAIN sensor_readings :
                sensor_readings[n] <= config.danger_threshold) => hazard_score = HazardOne

\* the worst sensor lies on the ramp and is not the last one visited
C9_Witness ==
    /\ op = "calculate_hazard_score"
    /\ DOMAIN sensor_readings = SensorNames
    /\ hazard_score > 0
    /\ hazard_score < HazardOne
    /\ \E n \in SensorNames : sensor_readings[n] > config.warning_threshold
    /\ \E n \in SensorNames : DangerOf(sensor_readings[n], config) \in 1 .. (hazard_score - 1)

\* C10: for a fixed profile, raising the distance of any one sensor while the
\* others are held fixed never raises the hazard score.
C10_HazardMonotone ==
    op = "calculate_hazard_score" =>
        \A n \in DOMAIN sensor_readings :
            \A d \in FrontDists :
                d >= sensor_readings[n] =>
                    calculate_hazard_score([sensor_readings EXCEPT ![n] = d], config)
                        <= hazard_score

\* raising one sensor strictly lowers the score
C10_Witness ==
    /\ op = "calculate_hazard_score"
    /\ hazard_score > 0
    /\ \E n \in DOMAIN sensor_readings :
          \E d \in FrontDists :
              /\ d > sensor_readings[n]
              /\ calculate_hazard_score([sensor_readings EXCEPT ![n] = d], config)
                    < hazard_score

\* C11: for every reading map, the hazard score of an engine in cautious mode
\* is greater than or equal to the hazard score an engine in aggressive mode
\* computes for the same map.
C11_CautiousAtLeastAggressive ==
    op = "calculate_hazard_score" =>
        /\ mode = "cautious" =>
              hazard_score >=
                  calculate_hazard_score(sensor_readings, DRIVING_MODES["aggressive"])
        /\ mode = "aggressive" =>
              hazard_score <=
                  calculate_hazard_score(sensor_readings, DRIVING_MODES["cautious"])

\* a map the cautious engine scores 1.0 and the aggressive engine scores
\* strictly between 0.0 and 1.0
C11_Witness ==
    /\ op = "calculate_hazard_score"
    /\ mode = "cautious"
    /\ hazard_score = HazardOne
    /\ calculate_hazard_score(sensor_readings, DRIVING_MODES["aggressive"])
           \in 1 .. (HazardOne - 1)

----------------------------------------------------------------------------
(* Claims about update_state (SpecHyst) *)

\* calls i .. i+n-1 have been made and all computed the same next state
SameDesired(i, n) ==
    /\ i + n - 1 <= Len(call_log)
    /\ \A k \in 0 .. (n - 1) : call_log[i + k].desired = call_log[i].desired

\* the calls at which the active state changed value
Changes == {i \in 1 .. Len(call_log) :
                call_log[i].active_after # call_log[i].active_before}

\* C2: with hysteresis_cycles = N, if N consecutive update_state calls all
\* compute the same next state D, D differing from the active state and from
\* the candidate tracked before the first of them, the active state is
\* unchanged after each of the first N-1 calls and equals D after the N-th.
C2_CommitOnNthCall ==
    \A i \in 1 .. Len(call_log) :
        (/\ SameDesired(i, hysteresis_threshold)
         /\ call_log[i].desired # call_log[i].active_before
         /\ call_log[i].desired # call_log[i].candidate_before)
        => /\ \A k \in 0 .. (hysteresis_threshold - 2) :
                  call_log[i + k].active_after = call_log[i].active_before
           /\ call_log[i + hysteresis_threshold - 1].active_after = call_log[i].desired
           /\ (i + hysteresis_threshold - 1 = Len(call_log)
                  => current_state = call_log[i].desired)

\* a full window of N equal decisions, started away from the initial state,
\* has just been completed
C2_Witness ==
    \E i \in 2 .. Len(call_log) :
        /\ SameDesired(i, hysteresis_threshold)
        /\ i + hysteresis_threshold - 1 = Len(call_log)
        /\ call_log[i].desired # call_log[i].active_before
        /\ call_log[i].desired # call_log[i].candidate_before
        /\ call_log[i].active_before # CRUISE
        /\ current_state = call_log[i].desired

\* C3: every update_state call either (computed state differs from the
\* candidate) sets candidate to it and hold_count to 1, or leaves candidate
\* and adds exactly 1 to hold_count; the active state is overwritten with the
\* candidate only when afterwards hold_count >= hysteresis_threshold and is
\* otherwise unchanged.
C3_TrackerStep ==
    [][op' = "update_state" =>
        /\ IF desired_state' # state_candidate
           THEN state_candidate' = desired_state' /\ state_hold_count' = 1
           ELSE state_candidate' = state_candidate
                /\ state_hold_count' = state_hold_count + 1
        /\ IF state_hold_count' >= hysteresis_threshold'
           THEN current_state' = state_candidate'
           ELSE current_state' = current_state]_vars

\* the last call counted a repeated candidate up to the threshold and
\* committed it over a different active state
C3_Witness ==
    /\ op = "update_state"
    /\ call_log[Len(call_log)].desired = call_log[Len(call_log)].candidate_before
    /\ state_hold_count = hysteresis_threshold
    /\ call_log[Len(call_log)].active_before # current_state
    /\ current_state = state_candidate

\* C7: under a fixed profile with hysteresis_cycles = N, two calls at which
\* the active state changes are at least N calls apart, the first change of
\* a fresh engine is no earlier than the N-th call, and a sequence whose
\* computed next state never repeats N times in a row changes nothing.
C7_ChangesAtLeastNApart ==
    /\ \A i \in Changes : i >= hysteresis_threshold
    /\ \A i, j \in Changes : i < j => j - i >= hysteresis_threshold
    /\ (\A i \in 1 .. Len(call_log) : ~SameDesired(i, hysteresis_threshold))
           => Changes = {}

\* two changes exactly N calls apart
C7_Witness ==
    \E i, j \in Changes : j - i = hysteresis_threshold

----------------------------------------------------------------------------
(* Claims about construction, set_mode and reset (SpecEngine) *)

\* C13: constructing an engine with a mode name outside {cautious, normal,
\* aggressive}, and calling set_mode with such a name on an existing engine,
\* both fail with an error reported to the caller.
C13_UnknownModeIsRejected ==
    /\ (op = "construct" /\ mode_arg \notin ModeNames) => error # "none"
    /\ (op = "set_mode" /\ mode_arg \notin ModeNames) => error # "none"

\* C15: after any sequence of construction, set_mode (known or unknown
\* names), update_state and reset, config is the profile registered for the
\* engine's mode and hysteresis_threshold is that profile's hysteresis_cycles.
C15_ThresholdsConsistent ==
    engine_exists =>
        /\ mode \in ModeNames
        /\ config = DRIVING_MODES[mode]
        /\ hysteresis_threshold = config.hysteresis_cycles

\* an unknown name is given after a reset, later updates and a switch to a
\* profile with a lower threshold than the candidate's hold count
C15_Witness ==
    /\ op = "set_mode"
    /\ mode_arg \in UnknownModes
    /\ Len(state_history) < Len(call_log)
    /\ state_candidate # current_state
    /\ state_hold_count >= hysteresis_threshold

\* C16: set_mode with a known mode name replaces mode, config and
\* hysteresis_threshold only: the active state, the tracked candidate,
\* hold_count, hazard_score, ttc and state_history are left unchanged.
C16_SetModeFrame ==
    [][(op' = "set_mode" /\ mode_arg' \in ModeNames) =>
          /\ mode' = mode_arg'
          /\ config' = DRIVING_MODES[mode_arg']
          /\ hysteresis_threshold' = DRIVING_MODES[mode_arg'].hysteresis_cycles
          /\ UNCHANGED <<current_state, state_candidate, state_hold_count,
                         hazard_score, ttc, state_history>>]_vars

\* a switch to a profile whose threshold the in-flight candidate has already
\* reached: the candidate and its hold count are kept and nothing is committed
C16_Witness ==
    /\ op = "set_mode"
    /\ mode_arg \in ModeNames
    /\ mode = mode_arg
    /\ state_history # <<>>
    /\ hazard_score > 0
    /\ state_candidate # current_state
    /\ state_hold_count >= hysteresis_threshold

----------------------------------------------------------------------------
(* Claims about get_control_output and apply_control (SpecVehicle) *)

\* the rotation of the last apply_control, in (-pi, pi]
HeadingChange ==
    LET d == normalize_angle(heading - heading_before)
    IN  IF d > Pi THEN d - TwoPi ELSE d

\* C5: the AvoidRight command, applied by the integrator at |speed| above the
\* steering threshold, rotates the heading away from the front-left ray (at
\* heading + 45 degrees): the heading decreases in that tick; the AvoidLeft
\* command rotates it away from the front-right ray: the heading increases.
C5_AvoidCommandSteersAway ==
    (op = "apply_control" /\ Abs(speed) > 10)
    => /\ cmd_state = AVOID_RIGHT => HeadingChange < 0
       /\ cmd_state = AVOID_LEFT => HeadingChange > 0

\* C8: get_control_output is a fixed stateless mapping within throttle
\* [-1,1], steering [-1,1], brake [0,1]: Cruise throttle 1.0, no steering or
\* brake; AvoidLeft/AvoidRight throttle 0.6, steering of magnitude 0.8 and
\* opposite signs; EmergencyBrake throttle 0, brake 1.0; Reversing negative
\* throttle, no steering or brake; any other value throttle 0, brake 1.0.
C8_ControlMapping ==
    op = "get_control_output" =>
        /\ control_output.throttle \in -10 .. 10
        /\ control_output.steering \in -10 .. 10
        /\ control_output.brake \in 0 .. 10
        /\ cmd_state = CRUISE =>
              control_output = [throttle |-> 10, steering |-> 0, brake |-> 0]
        /\ cmd_state \in {AVOID_LEFT, AVOID_RIGHT} =>
              /\ control_output.throttle = 6
              /\ Abs(control_output.steering) = 8
              /\ control_output.steering =
                    -get_control_output(IF cmd_state = AVOID_LEFT
                                        THEN AVOID_RIGHT ELSE AVOID_LEFT).steering
        /\ cmd_state = EMERGENCY_BRAKE =>
              control_output.throttle = 0 /\ control_output.brake = 10
        /\ cmd_state = REVERSING =>
              /\ control_output.throttle < 0
              /\ control_output.steering = 0
              /\ control_output.brake = 0
        /\ cmd_state \notin VehicleState =>
              control_output.throttle = 0 /\ control_output.brake = 10

\* the mapping is asked for a value that is none of the five states, after
\* the vehicle has moved
C8_Witness ==
    /\ op = "get_control_output"
    /\ ticks > 0
    /\ cmd_state \in UnknownStates
    /\ control_output.brake = 10

----------------------------------------------------------------------------
(* Claims about the integration tick (SpecIntegrator) *)

\* C17: after every Vehicle.apply_control call, for any command, dt and prior
\* speed, the speed lies in [-max_speed/2, max_speed] for the max_speed passed
\* to that call.
C17_SpeedClamp ==
    op = "apply_control" =>
        /\ 2 * speed >= -config.max_speed
        /\ speed <= config.max_speed

\* the vehicle entered the call reversing faster than half the forward limit
\* and was pulled back to the reverse limit
C17_Witness ==
    /\ op = "apply_control"
    /\ 2 * speed_before < -config.max_speed
    /\ 2 * speed = -config.max_speed

\* C18: after every integration tick (Car.update and Vehicle.apply_control),
\* for any speed, heading and start position, the footprint is inside the
\* world: radius <= x <= world_width - radius and radius <= y <=
\* world_height - radius.
C18_FootprintInsideWorld ==
    /\ op = "apply_control" =>
          /\ vehicle_radius <= position[1]
          /\ position[1] <= world_width - vehicle_radius
          /\ vehicle_radius <= position[2]
          /\ position[2] <= world_height - vehicle_radius
    /\ op = "car_update" =>
          /\ CarConfig.car_radius <= car.x
          /\ car.x <= CarConfig.world_width - CarConfig.car_radius
          /\ CarConfig.car_radius <= car.y
          /\ car.y <= CarConfig.world_height - CarConfig.car_radius

\* the car's footprint crosses a vertical edge
VerticalContact ==
    \/ car_pre.x - CarConfig.car_radius < 0
    \/ car_pre.x + CarConfig.car_radius > CarConfig.world_width

\* the car's footprint crosses a horizontal edge
HorizontalContact ==
    \/ car_pre.y - CarConfig.car_radius < 0
    \/ car_pre.y + CarConfig.car_radius > CarConfig.world_height

\* a car crossed the left and the bottom edge in one tick and was put back
\* into the corner
C18_Witness ==
    /\ op = "car_update"
    /\ car_pre.x - CarConfig.car_radius < 0
    /\ car_pre.y - CarConfig.car_radius < 0
    /\ car.x = CarConfig.car_radius
    /\ car.y = CarConfig.car_radius

\* C19 (as stated): on contact with a vertical edge the heading after the
\* tick is (pi - heading_before) mod 2pi, on contact with a horizontal edge it
\* is (2pi - heading_before) mod 2pi, and a tick without contact leaves it
\* unchanged; a car heading straight at the left wall faces right afterwards.
C19_HeadingReflected ==
    op = "car_update" =>
        /\ VerticalContact => car.theta = (Pi - car_pre.theta) % TwoPi
        /\ HorizontalContact => car.theta = (TwoPi - car_pre.theta) % TwoPi
        /\ (~VerticalContact /\ ~HorizontalContact) => car.theta = car_pre.theta
        /\ (car_pre.x - CarConfig.car_radius < 0 /\ car_pre.theta = Pi)
              => car.theta = 0

\* C19 (amended): the same when only a vertical, or only a horizontal, edge is
\* touched; when both are touched in one tick both reflections are applied and
\* the heading is (heading_before + pi) mod 2pi.
C19_HeadingReflectedPerEdge ==
    op = "car_update" =>
        /\ (VerticalContact /\ ~HorizontalContact)
              => car.theta = (Pi - car_pre.theta) % TwoPi
        /\ (HorizontalContact /\ ~VerticalContact)
              => car.theta = (TwoPi - car_pre.theta) % TwoPi
        /\ (VerticalContact /\ HorizontalContact)
              => car.theta = (car_pre.theta + Pi) % TwoPi
        /\ (~VerticalContact /\ ~HorizontalContact) => car.theta = car_pre.theta
        /\ (car_pre.x - CarConfig.car_radius < 0 /\ car_pre.theta = Pi)
              => car.theta = 0

\* a moving car touched a vertical and a horizontal edge in one tick and its
\* heading is neither single reflection
C19_Witness ==
    /\ op = "car_update"
    /\ VerticalContact
    /\ HorizontalContact
    /\ car_pre.v # 0
    /\ car.theta = (car_pre.theta + Pi) % TwoPi
    /\ car.theta # (Pi - car_pre.theta) % TwoPi
    /\ car.theta # (TwoPi - car_pre.theta) % TwoPi

\* C20: in every Car.update tick in which boundary handling
\* clamps the position at one or more edges, the speed at the end of the tick
\* is -0.5 times the speed just before boundary handling, also when a vertical
\* and a horizontal edge are both hit.
C20_SpeedReversedAndHalved ==
    (op = "car_update" /\ (VerticalContact \/ HorizontalContact))
        => 2 * car.v = -car_pre.v

----------------------------------------------------------------------------
(* Claims about the environment and the collision check (SpecWorld) *)

\* the number of positions of a log at which an overlap follows none
RECURSIVE RisingEdges(_)
RisingEdges(log) ==
    IF log = <<>> THEN 0
    ELSE LET n == Len(log)
             before == IF n = 1 THEN FALSE ELSE log[n - 1]
         IN  RisingEdges(SubSeq(log, 1, n - 1))
                + (IF log[n] /\ ~before THEN 1 ELSE 0)

\* C21: over any sequence of check_collision calls, collision_count goes up
\* by exactly 1 in a call that finds an overlap when the previous call found
\* none and is unchanged in every other call, so it always equals the number
\* of non-overlap to overlap transitions.
C21_CountsRisingEdges ==
    /\ collision.collision_count = RisingEdges(overlap_log)
    /\ overlap_log # <<>> =>
          collision.in_collision = overlap_log[Len(overlap_log)]

\* an overlap lasted two calls, ended, and a second one began
C21_Witness ==
    /\ op = "check_collision"
    /\ overlap_log = <<TRUE, TRUE, FALSE, TRUE>>
    /\ collision.collision_count = 2

\* C24: the obstacle sequence get_obstacles returned is a snapshot: a later
\* add_obstacle or remove_obstacle on the environment does not change the
\* contents of a sequence that was returned earlier.
C24_ReturnedListIsSnapshot ==
    returned # <<>> => contents(returned) = returned.at_return

----------------------------------------------------------------------------
(* Further claims about the integration tick (SpecIntegrator) *)

\* apply_control was called with zero throttle and zero brake at dt = 0.1 s
Coasting ==
    /\ op = "apply_control"
    /\ control_output.throttle = 0
    /\ control_output.brake = 0
    /\ dt_arg = NominalDt

\* the footprint was inside the world when apply_control was entered
WasInsideWorld ==
    /\ vehicle_radius <= position_before[1]
    /\ position_before[1] <= world_width - vehicle_radius
    /\ vehicle_radius <= position_before[2]
    /\ position_before[2] <= world_height - vehicle_radius

\* the tick did not change the sign of the speed and did not raise |speed|
FrictionOnlyOpposes ==
    /\ speed_before > 0 => speed >= 0
    /\ speed_before < 0 => speed <= 0
    /\ Abs(speed) <= Abs(speed_before)

C30_BrakingNeverReverses ==
    (op = "apply_control" /\ control_output.brake > 0 /\ speed_before >= 0)
        => speed >= 0

----------------------------------------------------------------------------
(* Claims about the control-loop tick (SpecHyst) *)

FullBrake == [throttle |-> 0, steering |-> 0, brake |-> 10]

\* C29 (as stated): on any tick in which the predictive-brake condition holds
\* (ttc < ttc_threshold and speed > 0.5) the active state update_state returns
\* in that tick is EmergencyBrake, so the command applied in that tick is
\* full brake with zero throttle.
C29_OverrideNotDelayed ==
    (op = "update_state"
        /\ OverrideApplies(sensor_readings, current_speed, config))
    => /\ current_state = EMERGENCY_BRAKE
       /\ get_control_output(current_state) = FullBrake

\* C29 (amended): on such a tick determine_next_state returns EmergencyBrake
\* and EmergencyBrake is the tracked candidate; the active state is
\* EmergencyBrake, and the command full brake, once the candidate's hold
\* count has reached hysteresis_cycles; until then the previous active state
\* is returned and its command is the one applied.
C29_OverrideSubjectToHysteresis ==
    (op = "update_state"
        /\ OverrideApplies(sensor_readings, current_speed, config))
    => LET last == call_log[Len(call_log)]
       IN  /\ desired_state = EMERGENCY_BRAKE
           /\ state_candidate = EMERGENCY_BRAKE
           /\ state_hold_count >= hysteresis_threshold =>
                 /\ current_state = EMERGENCY_BRAKE
                 /\ get_control_output(current_state) = FullBrake
           /\ state_hold_count < hysteresis_threshold =>
                 /\ current_state = last.active_before
                 /\ get_control_output(current_state)
                       = get_control_output(last.active_before)

\* the condition holds for the second tick in a row and the vehicle is still
\* given the full throttle of Cruise
C29_Witness ==
    /\ op = "update_state"
    /\ OverrideApplies(sensor_readings, current_speed, config)
    /\ state_hold_count = 2
    /\ state_hold_count < hysteresis_threshold
    /\ current_state = CRUISE
    /\ get_control_output(current_state).throttle = 10

\* C23: under every interleaving of /api/start, /api/pause and /api/reset
\* with the simulation loop, at most one simulation_loop thread is alive,
\* and no two threads are inside run_cycle of the same controller
C23_AtMostOneLoopThread ==
    /\ Cardinality({t \in 1 .. Len(server.threads) : alive(server.threads[t])}) <= 1
    /\ \A t, u \in 1 .. Len(server.threads) :
          /\ t # u
          /\ server.threads[t].pc = "run_cycle"
          /\ server.threads[u].pc = "run_cycle"
          => server.threads[t].ctl # server.threads[u].ctl

\* the least element of a non-empty set of distances
Least(S) == CHOOSE m \in S : \A k \in S : m <= k

\* the per-obstacle hit distance of sensor n for the pose of the last call
HitDistance(n, circle) ==
    LET ray == ray_direction(scan.theta + sensor_offsets[n])
    IN  raycast_circle(scan.x, scan.y, ray[1], ray[2], circle)

Reorderings(obs) ==
    {[i \in 1 .. Len(obs) |-> obs[f[i]]] :
        f \in {g \in [1 .. Len(obs) -> 1 .. Len(obs)] :
                 \A i, j \in 1 .. Len(obs) : i # j => g[i] # g[j]}}

\* C25: for every sensor raycast returns the minimum over the obstacles of
\* the per-obstacle hit distance, capped at max_range; an empty list gives
\* max_range for all four sensors, adding an obstacle never increases a
\* reading, and the result does not depend on the order of the list
C25_RaycastIsMinimum ==
    op = "raycast" =>
        /\ \A n \in SensorNames :
              scan.readings[n] =
                 Least({HitDistance(n, scan.obstacles[i]) :
                           i \in 1 .. Len(scan.obstacles)} \cup {max_range})
        /\ scan.obstacles = <<>> =>
              \A n \in SensorNames : scan.readings[n] = max_range
        /\ \A circle \in CircleChoices, n \in SensorNames :
              raycast(scan.x, scan.y, scan.theta,
                      Append(scan.obstacles, circle))[n] <= scan.readings[n]
        /\ \A obs \in Reorderings(scan.obstacles) :
              raycast(scan.x, scan.y, scan.theta, obs) = scan.readings

\* two obstacles on one ray, the nearer one first in the list
C25_Witness ==
    /\ op = "raycast"
    /\ Len(scan.obstacles) = 2
    /\ \E n \in SensorNames :
          /\ HitDistance(n, scan.obstacles[1]) < HitDistance(n, scan.obstacles[2])
          /\ HitDistance(n, scan.obstacles[2]) < max_range
          /\ scan.readings[n] = HitDistance(n, scan.obstacles[1])

\* the obstacle list holds one circle and its centre lies on the ray of
\* sensor n, at distance d from the car centre
OnRay(n, d) ==
    LET ray == ray_direction(scan.theta + sensor_offsets[n])
    IN  /\ Len(scan.obstacles) = 1
        /\ scan.obstacles[1][1] = scan.x + d * ray[1]
        /\ scan.obstacles[1][2] = scan.y + d * ray[2]

C27_UpdateWithinRange ==
    op = "update" =>
        \A n \in SensorNames :
            /\ 0 <= scan.readings[n]
            /\ scan.readings[n] <= max_range

\* noise and filter both on, the window full after a third update, one
\* sensor's window clamped to 0 and another's to max_range
C27_Witness ==
    /\ op = "update"
    /\ sensors.noise_enabled
    /\ sensors.filter_enabled
    /\ sensors.timestamp >= 3
    /\ Len(sensors.filter_history["FR"]) = SensorArrayConfig.filter_size
    /\ scan.readings["FR"] = 0
    /\ scan.readings["FL"] = max_range
    /\ sensors.latest_readings["FR"].raw_distance = 500

\* C28: with noise and the filter switched off, update returns what raycast
\* computes from the pose and the obstacles of the call alone, so two calls
\* with the same arguments return the same readings whatever was called
\* before or between them
C28_UpdateIsRaycastWhenSwitchedOff ==
    (op = "update" /\ ~sensors.noise_enabled /\ ~sensors.filter_enabled) =>
        scan.readings = raycast(scan.x, scan.y, scan.theta, scan.obstacles)

\* both switches off after earlier filtered, noisy calls left other values
\* in the window
C28_Witness ==
    /\ op = "update"
    /\ ~sensors.noise_enabled
    /\ ~sensors.filter_enabled
    /\ sensors.filter_history["FR"] = <<0, 540>>
    /\ scan.readings["FR"] = 500

----------------------------------------------------------------------------
(* Claims about the bounce of Car.update (SpecIntegrator), continued *)

\* C31: after Car.update handled contact with a single world edge while the
\* car is moving, the velocity component perpendicular to that edge does not
\* point out of the world, and a following update without new acceleration
\* does not hit that edge again
C31_BounceLeavesEdge ==
    (op = "car_update" /\ car.v # 0) =>
        LET r == CarConfig.car_radius
            next == kinematics(car, NominalDt)
        IN  /\ (car_pre.x - r < 0 /\ ~HorizontalContact)
                  => /\ car.v * cos1000(car.theta) >= 0
                     /\ ~(next.x - r < 0)
            /\ (car_pre.x + r > CarConfig.world_width /\ ~HorizontalContact)
                  => /\ car.v * cos1000(car.theta) <= 0
                     /\ ~(next.x + r > CarConfig.world_width)
            /\ (car_pre.y - r < 0 /\ ~VerticalContact)
                  => /\ car.v * sin1000(car.theta) >= 0
                     /\ ~(next.y - r < 0)
            /\ (car_pre.y + r > CarConfig.world_height /\ ~VerticalContact)
                  => /\ car.v * sin1000(car.theta) <= 0
                     /\ ~(next.y + r > CarConfig.world_height)

----------------------------------------------------------------------------
(* Claims about update_state under a constant input (SpecSteady) *)

\* C32: for a fixed profile and an input that stays constant, repeated
\* update_state calls eventually stabilise: from some tick on the active
\* state never changes again
C32_EventuallyStable == <>[][current_state' = current_state]_vars

----------------------------------------------------------------------------
(* Claims about determine_next_state (SpecALU), continued *)

\* C33: whenever both front readings FL and FR are below danger_threshold,
\* determine_next_state returns neither AvoidLeft nor AvoidRight, for any
\* active state and any speed
C33_BlockedFrontNeverAvoids ==
    (op = "determine_next_state"
        /\ Get(sensor_readings, "FL") < config.danger_threshold
        /\ Get(sensor_readings, "FR") < config.danger_threshold)
    => desired_state \notin {AVOID_LEFT, AVOID_RIGHT}

----------------------------------------------------------------------------
(* Claims about the closed loop (SpecLoop, SpecOpenRoad) *)

\* the front distance of the tick is at or below 1.5 * danger_threshold
FrontStaysLow ==
    \E n \in {"FL", "FR"} :
        /\ n \in DOMAIN sensor_readings
        /\ 2 * sensor_readings[n] <= 3 * config.danger_threshold

\* C34: in the closed loop, if the active state is EmergencyBrake and the
\* front distance stays at or below 1.5 * danger_threshold on every
\* following tick, the active state eventually becomes Reversing
C34_BrakeLeadsToReversing ==
    []((current_state = EMERGENCY_BRAKE /\ []FrontStaysLow)
          => <>(current_state = REVERSING))

\* the vehicle braked from speed, passed rest, and Reversing has just become
\* the active state in front of a blocked road
C34_Witness ==
    /\ op = "run_cycle"
    /\ FrontStaysLow
    /\ Len(state_history) >= 2
    /\ state_history[Len(state_history) - 1] = EMERGENCY_BRAKE
    /\ state_history[Len(state_history)] = REVERSING
    /\ current_state = REVERSING
    /\ speed < 0

\* C37: in the closed loop with an obstacle-free scene (all four readings
\* at the sensor max_range on every tick) and a vehicle starting at rest,
\* the active state is Cruise on every tick, in each of the three profiles:
\* the speed never exceeds max_speed and the predictive brake never fires
C37_OpenRoadStaysCruise ==
    /\ current_state = CRUISE
    /\ speed <= config.max_speed
    /\ op = "run_cycle" => desired_state = CRUISE

\* the vehicle has reached the profile's max_speed and still cruises
C37_Witness ==
    /\ op = "run_cycle"
    /\ sensor_readings \in OpenRoad
    /\ current_speed = config.max_speed
    /\ speed = config.max_speed
    /\ current_state = CRUISE

\* C38: a set_mode call with a name that is not a registered driving mode
\* leaves the whole engine state unchanged: mode, config,
\* hysteresis_threshold, the active state, the candidate and hold_count are
\* the same after the call as before it.
C38_UnknownSetModeChangesNothing ==
    [][(op' = "set_mode" /\ mode_arg' \notin ModeNames) =>
          UNCHANGED <<mode, config, hysteresis_threshold, current_state,
                      state_candidate, state_hold_count>>]_vars

\* an unknown name given to an engine that is not in the normal profile, is
\* not cruising and has a candidate in flight
C38_Witness ==
    /\ op = "set_mode"
    /\ mode_arg \in UnknownModes
    /\ mode = "aggressive"
    /\ current_state = EMERGENCY_BRAKE
    /\ state_candidate # current_state
    /\ state_hold_count = 1

\* the calls i-n+1..i of the run all asked for EmergencyBrake
BrakeAskedFor(i, n) ==
    /\ i >= n
    /\ \A k \in (i - n + 1)..i : call_log[k].desired = EMERGENCY_BRAKE

\* C35: under a fixed profile with hysteresis_cycles = N, if ttc <
\* ttc_threshold and speed > 0.5 hold on N consecutive update_state calls,
\* the active state is EmergencyBrake no later than after the N-th of those
\* calls, whatever the active state and the tracker held before.  Each call
\* on which the condition holds asks for EmergencyBrake, and N calls in a row
\* that ask for it leave it active.
C35_BrakeWithinNCalls ==
    /\ (op = "update_state" /\ OverrideApplies(sensor_readings, current_speed, config))
          => call_log[Len(call_log)].desired = EMERGENCY_BRAKE
    /\ \A i \in 1..Len(call_log) :
          BrakeAskedFor(i, config.hysteresis_cycles)
              => call_log[i].active_after = EMERGENCY_BRAKE

\* the condition holds on the last call, which is the N-th in a row asking
\* for EmergencyBrake and the one committing it; before the first of them
\* another state was active and another candidate was being counted
C35_Witness ==
    LET n == config.hysteresis_cycles
        i == Len(call_log)
    IN  /\ op = "update_state"
        /\ OverrideApplies(sensor_readings, current_speed, config)
        /\ BrakeAskedFor(i, n)
        /\ i > n
        /\ call_log[i - n].desired # EMERGENCY_BRAKE
        /\ call_log[i - n + 1].active_before \notin {EMERGENCY_BRAKE, CRUISE}
        /\ call_log[i - n + 1].candidate_before \notin {EMERGENCY_BRAKE, call_log[i - n + 1].active_before}
        /\ call_log[i].active_before # EMERGENCY_BRAKE
        /\ call_log[i].active_after = EMERGENCY_BRAKE

\* C36: over any sequence of update_state and set_mode calls from a fresh
\* engine, the active state becomes Reversing only directly from
\* EmergencyBrake: in any update after which the active state is Reversing,
\* the active state before that update was EmergencyBrake or Reversing (and
\* no set_mode call makes Reversing active).
C36_ReversingOnlyFromBrake ==
    [][current_state' = REVERSING
          => current_state \in {EMERGENCY_BRAKE, REVERSING}]_vars

\* Reversing has just replaced EmergencyBrake in the aggressive profile on
\* the fourth tick of its candidate, which was counted under a profile with
\* a higher threshold before set_mode lowered it
C36_Witness ==
    /\ op = "update_state"
    /\ current_state = REVERSING
    /\ state_history = <<EMERGENCY_BRAKE, REVERSING>>
    /\ mode = "aggressive"
    /\ state_hold_count = 4

\* C39: under every interleaving with the background simulation loop, once
\* a /api/reset request has completed the newly created controller has
\* executed no cycle (cycle_count = 0) and executes none until a later
\* /api/start request: no loop thread is inside its run_cycle
C39_ResetControllerIdle ==
    server.reset_completed =>
        /\ server.controller.cycle_count = 0
        /\ \A t \in 1 .. Len(server.threads) :
              server.threads[t].pc = "run_cycle"
                  => server.threads[t].ctl # server.controller.id

====
